---- MODULE Spec2Model ----
(***************************************************************************)
(* Resume-screening backend: the parsing state machine of GeminiService,   *)
(* the duplicate gate of the upload handler over the record store, and the *)
(* AI-plus-heuristic scorer of EnhancedResumeScorer, the read paths of the *)
(* stored records and the document text extraction.                        *)
(*                                                                         *)
(* Eleven specifications share the module:                                 *)
(*   SpecParse     - one run of GeminiService.parse_resume                 *)
(*   SpecUpload    - concurrent upload / update / delete requests          *)
(*   SpecScore     - one run of EnhancedResumeScorer.calculate_match_score *)
(*   SpecHeuristic - the rule-based scoring functions on their own         *)
(*   SpecSkills    - the skills score as the job's skill lists change      *)
(*   SpecRead      - the paths that read a stored record's certifications  *)
(*   SpecDocument  - one run of AzureDocumentParser.parse_document         *)
(*   SpecRepeat    - the rule-based scorer called again as the year turns  *)
(*   SpecMatchAll  - one run of AnalyticsService.match_all_resumes_with_jd *)
(*   SpecAuth      - requests to the protected endpoints                   *)
(*   SpecExtract   - the website and experience entries of a parsed record *)
(* Each one leaves the variables of the others at their idle values.       *)
(***************************************************************************)
EXTENDS Integers, Sequences, FiniteSets, TLC

VARIABLES
    \* ---- SpecParse: GeminiService.parse_resume
    p_text,        \* resume_text, the argument of parse_resume
    p_pc,          \* position in parse_resume
    p_llm_calls,   \* number of model.generate_content calls made so far
    p_resp,        \* the LLM response the returned record was built from, if any
    p_hist,        \* the states run so far, each with its outcome
    p_result,      \* the Resume returned (None until Done)
    \* ---- SpecUpload: upload_resume, update_resume, delete_resume over db.resumes
    u_store,       \* db.resumes: the stored records
    u_blobs,       \* GridFS: the ids of the stored files
    u_next_id,     \* the next ObjectId db.resumes.insert_one hands out
    u_req,         \* the upload requests in flight, each with its locals
    u_edits,       \* number of update and delete requests served so far
    \* ---- SpecScore, SpecHeuristic: EnhancedResumeScorer
    s_resume,      \* resume, the first argument of calculate_match_score
    s_jd,          \* job_description, the second argument
    s_now,         \* datetime.now().year
    s_pc,          \* position in the call
    s_resp,        \* the LLM response the call received, if it asked for one
    s_llm_calls,   \* number of model.generate_content calls made
    s_result,      \* the value returned (None until Done)
    \* ---- SpecDocument: AzureDocumentParser.parse_document
    d_file,        \* the uploaded file: its extension and what each parser makes of it
    d_available,   \* self.available: the Azure client was constructed
    d_pc,          \* position in the call
    d_out,         \* the text returned (None until Done)
    \* ---- SpecRead: the paths that read a stored record
    r_doc,         \* the certifications member of the record read
    r_job,         \* whether the request carries a job description
    r_pc,          \* the path taken ("Start" before the request)
    r_out,         \* the path's outcome (None until taken)
    \* ---- SpecRepeat: repeated calls of _calculate_fallback_score
    t_results,     \* the values the calls so far returned, in call order
    \* ---- SpecMatchAll: AnalyticsService.match_all_resumes_with_jd
    m_all_resumes, \* all_resumes: the records in the order db.resumes.find gave them
    m_i,           \* number of records the loop has gone through
    m_results,     \* matched_results
    m_pc,          \* position in the call
    m_out,         \* the dictionary returned (None until Done)
    \* ---- SpecAuth: requests to the protected endpoints
    a_users,       \* db.users: per e-mail "absent", "active" or "inactive" (is_active)
    a_tokens,      \* the e-mails an unexpired access token has been issued for
    a_req,         \* the request being served: its endpoint and Authorization header
    a_pc,          \* how far the request has got
    a_status,      \* the HTTP status of the response (0 until Done)
    a_effects,     \* what the handler body did for the request
    \* ---- SpecExtract: the contact and experience entries of a parsed record
    f_llm,         \* the experiences member of the LLM's JSON (None: no usable JSON)
    f_facts,       \* what the fallback's patterns find in resume_text
    f_pc,          \* position: "LLM", "Fallback", "Built", "Scored"
    f_resume,      \* the record parse_resume returns (None until Built)
    f_jd,          \* the job description the record is scored against
    f_score        \* experience years and experience score of the record

pvars == <<p_text, p_pc, p_llm_calls, p_resp, p_hist, p_result>>
uvars == <<u_store, u_blobs, u_next_id, u_req, u_edits>>
svars == <<s_resume, s_jd, s_now, s_pc, s_resp, s_llm_calls, s_result>>
dvars == <<d_file, d_available, d_pc, d_out>>
rvars == <<r_doc, r_job, r_pc, r_out>>
tvars == <<t_results>>
\* the variables of the specifications defined after SpecDocument
mvars == <<m_all_resumes, m_i, m_results, m_pc, m_out>>
avars == <<a_users, a_tokens, a_req, a_pc, a_status, a_effects>>
fvars == <<f_llm, f_facts, f_pc, f_resume, f_jd, f_score>>
xvars == <<tvars, mvars, avars, fvars>>
vars == <<pvars, uvars, svars, dvars, rvars, xvars>>

\* Optional values: None is the empty sequence, a present value x is <<x>>
None == <<>>
Some(x) == <<x>>
The(o) == o[1]

Min(S) == CHOOSE x \in S : \A y \in S : x <= y
Max(S) == CHOOSE x \in S : \A y \in S : x >= y

(***************************************************************************)
(* Text.  A document text is a sequence of characters.  The alphabet is    *)
(* the smallest one over which the e-mail pattern of the fallback parser   *)
(* matches; every text over it is a single line.                           *)
(***************************************************************************)
Alphabet == {"a", ".", "@"}
MaxTextLen == 6
Texts == UNION {[1..n -> Alphabet] : n \in 0..MaxTextLen}

\* hashlib.sha256(text.encode()).hexdigest(): a digest that depends on every
\* character of the text and does not collide on the texts of the model
\* (positional encoding in base |Alphabet| + 1).
CharCode(c) == CASE c = "a" -> 1 [] c = "." -> 2 [] c = "@" -> 3
RECURSIVE sha256_hexdigest(_)
sha256_hexdigest(t) ==
    IF t = <<>> THEN 0
    ELSE CharCode(Head(t)) + (Cardinality(Alphabet) + 1) * sha256_hexdigest(Tail(t))

(***************************************************************************)
(* The e-mail pattern of the fallback parser,                              *)
(*   \b[A-Za-z0-9._%+-]+@[A-Za-z0-9.-]+\.[A-Z|a-z]{2,}\b                   *)
(* matched as re.search does: leftmost start, greedy with backtracking.    *)
(* The character classes are given on the alphabet of the model.           *)
(***************************************************************************)
WordChars   == {"a"}          \* \w
LocalChars  == {"a", "."}     \* [A-Za-z0-9._%+-]
DomainChars == {"a", "."}     \* [A-Za-z0-9.-]
TldChars    == {"a"}          \* [A-Z|a-z]

\* \b at position i of s (between s[i-1] and s[i])
WordBoundary(s, i) ==
    LET before == i > 1 /\ s[i - 1] \in WordChars
        after  == i <= Len(s) /\ s[i] \in WordChars
    IN  before # after

\* the first position from i on whose character is outside C (Len(s)+1 if none)
RunEnd(s, i, C) ==
    LET stops == {j \in i..Len(s) : s[j] \notin C}
    IN  IF stops = {} THEN Len(s) + 1 ELSE Min(stops)

\* the position after the match of the pattern that starts at i, 0 if none
EmailMatchEnd(s, i) ==
    LET at == RunEnd(s, i, LocalChars)
    IN  IF ~WordBoundary(s, i) \/ at = i \/ at > Len(s) THEN 0
        ELSE IF s[at] # "@" THEN 0
        ELSE LET k == at + 1
                 m == RunEnd(s, k, DomainChars)
                 cands == {c \in ((k + 1)..(m - 1)) \X ((k + 4)..(Len(s) + 1)) :
                              /\ s[c[1]] = "."
                              /\ c[2] >= c[1] + 3
                              /\ \A x \in (c[1] + 1)..(c[2] - 1) : s[x] \in TldChars
                              /\ WordBoundary(s, c[2])}
             IN  IF cands = {} THEN 0
                 ELSE LET dot == Max({c[1] : c \in cands})
                      IN  Max({c[2] : c \in {x \in cands : x[1] = dot}})

\* re.search(email_pattern, resume_text): group(0) of the match, or None
email_search(s) ==
    LET starts == {i \in 1..Len(s) : EmailMatchEnd(s, i) # 0}
    IN  IF starts = {} THEN None
        ELSE LET i == Min(starts) IN Some(SubSeq(s, i, EmailMatchEnd(s, i) - 1))

(***************************************************************************)
(* Contact.email is an EmailStr: pydantic validates the value with         *)
(* email-validator, which wants dot-atoms on both sides of the single "@": *)
(* no leading, trailing or doubled period.                                 *)
(***************************************************************************)
DotAtom(x) ==
    /\ Len(x) > 0
    /\ x[1] # "."
    /\ x[Len(x)] # "."
    /\ \A i \in 1..(Len(x) - 1) : ~(x[i] = "." /\ x[i + 1] = ".")

EmailStr_valid(e) ==
    LET ats == {i \in 1..Len(e) : e[i] = "@"}
    IN  /\ Cardinality(ats) = 1
        /\ LET at == Min(ats)
           IN  /\ DotAtom(SubSeq(e, 1, at - 1))
               /\ DotAtom(SubSeq(e, at + 1, Len(e)))
               /\ \E i \in (at + 1)..Len(e) : e[i] = "."

\* Contact(**contact): the validation of the contact fields
Contact_valid(email) == email = None \/ EmailStr_valid(The(email))

(***************************************************************************)
(* The LLM.  A response of model.generate_content is one of:               *)
(*   raise      - the call, or reading response.text, raises               *)
(*   garbage    - text that is not JSON and holds no {...} block           *)
(*   json_array - valid JSON that is not an object                         *)
(*   json       - a JSON object, bare or inside a markdown fence           *)
(*   prose_json - a JSON object with text before or after it               *)
(* An object has or lacks the required "name", and may carry its own       *)
(* "resume_hash" and "source" members.                                     *)
(***************************************************************************)
SpoofedHash == sha256_hexdigest(<<"a">>)
LLMObjects ==
    [kind : {"json", "prose_json"}, has_name : BOOLEAN,
     hash_field : {None, Some(SpoofedHash)},
     source_field : {None, Some("enhanced-fallback")}]
LLMFailures ==
    [kind : {"raise", "garbage", "json_array"}, has_name : {FALSE},
     hash_field : {None}, source_field : {None}]
LLMResponses == LLMObjects \cup LLMFailures

\* upload_resume: text_hash = hashlib.sha256(text_content.encode()).hexdigest()
upload_text_hash(text_content) == sha256_hexdigest(text_content)

\* a Resume, reduced to the fields the claims read
MkResume(source, hash, email) ==
    [source |-> source, resume_hash |-> hash, email |-> email]

\* the dict json.loads gives, after the fence stripping and the {...} rescue;
\* None when json.loads raises
json_loads(resp) ==
    CASE resp.kind \in {"json", "prose_json"} ->
             Some([is_dict |-> TRUE, has_name |-> resp.has_name,
                   resume_hash |-> resp.hash_field, source |-> resp.source_field])
      [] resp.kind = "json_array" ->
             Some([is_dict |-> FALSE, has_name |-> FALSE, resume_hash |-> None, source |-> None])
      [] OTHER -> None

\* (mutant) data.setdefault('resume_hash', ...): a hash the LLM sent is kept
stamp_hash_setdefault(data, resume_text) ==
    IF data.resume_hash = None
    THEN [data EXCEPT !.resume_hash = Some(sha256_hexdigest(resume_text))]
    ELSE data

\* data['resume_hash'] = hashlib.sha256(resume_text.encode()).hexdigest()
stamp_hash(data, resume_text) ==
    [data EXCEPT !.resume_hash = Some(sha256_hexdigest(resume_text))]

\* data['source'] = 'gemini-enhanced'
stamp_source(data, strict_mode) == [data EXCEPT !.source = Some("gemini-enhanced")]

\* GeminiService._call_gemini: [raised, resume]
call_gemini(resume_text, strict_mode, resp) ==
    LET loaded == json_loads(resp)
    IN  IF resp.kind = "raise" \/ loaded = None THEN [raised |-> TRUE, resume |-> None]
        ELSE IF ~The(loaded).is_dict THEN [raised |-> TRUE, resume |-> None]
        ELSE LET stamped == stamp_source(stamp_hash(The(loaded), resume_text), strict_mode)
             IN  IF ~stamped.has_name THEN [raised |-> TRUE, resume |-> None]
                 ELSE [raised |-> FALSE,
                       resume |-> Some(MkResume(The(stamped.source),
                                                The(stamped.resume_hash), None))]

\* GeminiService._enhanced_fallback_parse: [raised, resume]
enhanced_fallback_parse(resume_text) ==
    LET email == email_search(resume_text)
    IN  IF ~Contact_valid(email) THEN [raised |-> TRUE, resume |-> None]
        ELSE [raised |-> FALSE,
              resume |-> Some(MkResume("enhanced-fallback",
                                       sha256_hexdigest(resume_text), email))]

\* (mutant) the strict attempt is retried until it succeeds
parse_resume_next_retry(pc, raised) ==
    CASE pc = "StandardAttempt"    -> IF raised THEN "StrictAttempt" ELSE "Done"
      [] pc = "StrictAttempt"      -> IF raised THEN "StrictAttempt" ELSE "Done"
      [] pc = "FallbackExtraction" -> IF raised THEN "Raised" ELSE "Done"

\* the position parse_resume moves to from pc when the step there raised or not
parse_resume_next(pc, raised) ==
    CASE pc = "StandardAttempt"    -> IF raised THEN "StrictAttempt" ELSE "Done"
      [] pc = "StrictAttempt"      -> IF raised THEN "FallbackExtraction" ELSE "Done"
      [] pc = "FallbackExtraction" -> IF raised THEN "Raised" ELSE "Done"

\* GeminiService.parse_resume as one call, given what attempt 1, attempt 2 and
\* the fallback give when they run: [raised, resume, llm_calls]
parse_resume(a1, a2, fb) ==
    IF parse_resume_next("StandardAttempt", a1.raised) = "Done"
    THEN [raised |-> FALSE, resume |-> a1.resume, llm_calls |-> 1]
    ELSE IF parse_resume_next("StrictAttempt", a2.raised) = "Done"
    THEN [raised |-> FALSE, resume |-> a2.resume, llm_calls |-> 2]
    ELSE [raised |-> fb.raised, resume |-> fb.resume, llm_calls |-> 2]

\* what parse_resume(resume_text) can give, over every behaviour of the LLM
ParseOutcomes(resume_text) ==
    LET fb == enhanced_fallback_parse(resume_text)
    IN  {parse_resume(call_gemini(resume_text, FALSE, resp1),
                      call_gemini(resume_text, TRUE, resp2), fb) :
            resp1 \in LLMResponses, resp2 \in LLMResponses}

\* the values the variables of the other specifications rest at
ParseIdle ==
    /\ p_text = <<>>
    /\ p_pc = "Idle"
    /\ p_llm_calls = 0
    /\ p_resp = None
    /\ p_hist = <<>>
    /\ p_result = None

UploadIdle ==
    /\ u_store = {}
    /\ u_blobs = {}
    /\ u_next_id = 1
    /\ u_req = <<>>
    /\ u_edits = 0

ScoreIdle ==
    /\ s_resume = None
    /\ s_jd = None
    /\ s_now = 0
    /\ s_pc = "Idle"
    /\ s_resp = None
    /\ s_llm_calls = 0
    /\ s_result = None

DocumentIdle ==
    /\ d_file = None
    /\ d_available = FALSE
    /\ d_pc = "Idle"
    /\ d_out = None

ReadIdle ==
    /\ r_doc = <<>>
    /\ r_job = FALSE
    /\ r_pc = "Idle"
    /\ r_out = None

RepeatIdle ==
    t_results = <<>>

MatchAllIdle ==
    /\ m_all_resumes = <<>>
    /\ m_i = 0
    /\ m_results = <<>>
    /\ m_pc = "Idle"
    /\ m_out = None

AuthIdle ==
    /\ a_users = <<>>
    /\ a_tokens = {}
    /\ a_req = None
    /\ a_pc = "Off"
    /\ a_status = 0
    /\ a_effects = {}

ExtractIdle ==
    /\ f_llm = None
    /\ f_facts = None
    /\ f_pc = "Idle"
    /\ f_resume = None
    /\ f_jd = None
    /\ f_score = None

RestIdle ==
    /\ RepeatIdle
    /\ MatchAllIdle
    /\ AuthIdle
    /\ ExtractIdle

(***************************************************************************)
(* SpecParse: GeminiService.parse_resume(resume_text)                      *)
(***************************************************************************)
ParseInit ==
    /\ p_text \in Texts
    /\ p_pc = "StandardAttempt"
    /\ p_llm_calls = 0
    /\ p_resp = None
    /\ p_hist = <<>>
    /\ p_result = None
    /\ UploadIdle
    /\ ScoreIdle
    /\ DocumentIdle
    /\ ReadIdle
    /\ RestIdle

\* one LLM attempt of parse_resume, at pc
Attempt(pc, strict_mode) ==
    /\ p_pc = pc
    /\ \E resp \in LLMResponses :
          LET r == call_gemini(p_text, strict_mode, resp)
          IN  /\ p_resp' = IF r.raised THEN None ELSE Some(resp)
              /\ p_llm_calls' = p_llm_calls + 1
              /\ p_hist' = Append(p_hist, <<pc, IF r.raised THEN "failed" ELSE "ok">>)
              /\ p_pc' = parse_resume_next(pc, r.raised)
              /\ p_result' = r.resume
    /\ UNCHANGED <<p_text, uvars, svars, dvars, rvars, xvars>>

StandardAttempt == Attempt("StandardAttempt", FALSE)

StrictAttempt == Attempt("StrictAttempt", TRUE)

FallbackExtraction ==
    /\ p_pc = "FallbackExtraction"
    /\ LET r == enhanced_fallback_parse(p_text)
       IN  /\ p_hist' = Append(p_hist, <<"FallbackExtraction", IF r.raised THEN "failed" ELSE "ok">>)
           /\ p_pc' = parse_resume_next("FallbackExtraction", r.raised)
           /\ p_result' = r.resume
    /\ UNCHANGED <<p_text, p_llm_calls, p_resp, uvars, svars, dvars, rvars, xvars>>

ParseNext == StandardAttempt \/ StrictAttempt \/ FallbackExtraction

SpecParse == ParseInit /\ [][ParseNext]_vars

(***************************************************************************)
(* Claims on SpecParse                                                     *)
(***************************************************************************)

\* C1: parse_resume always returns a record and never raises, whatever the
\* text and whatever the LLM does: the fallback extraction cannot fail.
C1_ParseNeverRaises == p_pc # "Raised"

\* C2: parse_resume runs StandardAttempt, StrictAttempt, FallbackExtraction in
\* that order, each at most once and each only after every earlier one failed;
\* the first one that succeeds ends the parse; at most two LLM calls are made.
StateOrder == <<"StandardAttempt", "StrictAttempt", "FallbackExtraction">>
C2_ForwardOnly ==
    LET n == Len(p_hist)
        llm == {i \in 1..n : p_hist[i][1] # "FallbackExtraction"}
    IN  /\ n <= Len(StateOrder)
        /\ \A i \in 1..n : p_hist[i][1] = StateOrder[i]
        /\ \A i \in 1..(n - 1) : p_hist[i][2] = "failed"
        /\ p_llm_calls = Cardinality(llm)
        /\ p_llm_calls <= Len(StateOrder) - 1
        /\ IF n > 0 /\ p_hist[n][2] = "ok" THEN p_pc = "Done"
           ELSE IF n < Len(StateOrder) THEN p_pc = StateOrder[n + 1]
           ELSE p_pc \notin {"StandardAttempt", "StrictAttempt", "FallbackExtraction"}
        /\ (p_result # None) = (p_pc = "Done")

\* C2 witness: a parse that went through all three states and ended
C2_Witness ==
    /\ p_pc = "Done"
    /\ p_hist = <<<<"StandardAttempt", "failed">>, <<"StrictAttempt", "failed">>,
                  <<"FallbackExtraction", "ok">>>>
    /\ p_llm_calls = 2

\* C5: the resume_hash of the record parse_resume returns is the SHA-256 digest
\* of the input text, the one upload_resume computes before extraction, whichever
\* state produced the record and whatever the LLM response held.
C5_HashIsTextDigest ==
    p_result # None => The(p_result).resume_hash = upload_text_hash(p_text)

\* C5 witness: a record built by the strict attempt from a response that
\* carried a resume_hash of its own, different from the digest of the text
C5_Witness ==
    /\ p_pc = "Done"
    /\ Len(p_hist) = 2
    /\ p_resp # None
    /\ The(p_resp).hash_field # None
    /\ The(The(p_resp).hash_field) # sha256_hexdigest(p_text)
    /\ The(p_result).source = "gemini-enhanced"

\* C18: when both LLM attempts have failed, parse_resume returns a record
\* whose source marks it as fallback-extracted, and no record built from an
\* LLM response carries that source.
FallbackSource == "enhanced-fallback"
C18_FallbackSourceFlag ==
    /\ Len(p_hist) = Len(StateOrder)
           => /\ p_pc = "Done"
              /\ The(p_result).source = FallbackSource
    /\ (p_pc = "Done" /\ Len(p_hist) < Len(StateOrder))
           => The(p_result).source # FallbackSource

\* C19: a record produced by a successful StrictAttempt carries a source
\* ('llm-strict-retry') that tells it from a record produced by a successful
\* StandardAttempt.
StandardSource == The(stamp_source([source |-> None], FALSE).source)
C19_StrictSourceDistinct ==
    (p_pc = "Done" /\ Len(p_hist) = 2 /\ p_hist[2] = <<"StrictAttempt", "ok">>)
        => The(p_result).source # StandardSource

(***************************************************************************)
(* SpecUpload: POST /api/upload requests running concurrently with each    *)
(* other and with PUT / DELETE /api/resumes/{id} over the shared record    *)
(* store.  A handler is cut at its awaits on the store and on GridFS;      *)
(* parse_resume has no real suspension inside (generate_content blocks),   *)
(* so it runs within the step that ends in insert_one.                     *)
(***************************************************************************)
NumUploads == 2
MaxEdits == 1
Uploads == 1..NumUploads

\* the texts azure_parser.parse_document extracts from the uploaded files:
\* a plain one, and one on which the fallback extraction raises
UploadTexts == {<<"a">>, <<"a", "@", ".", ".", "a", "a">>}

\* the resume_hash values a PUT body can carry
BodyHashes == {sha256_hexdigest(t) : t \in UploadTexts}

\* db.resumes.find_one({"resume_hash": text_hash})
find_one_by_hash(store, text_hash) ==
    LET hits == {rec \in store : rec.resume_hash = text_hash}
    IN  IF hits = {} THEN None ELSE Some((CHOOSE rec \in hits : TRUE).id)

\* (mutant) insert_one on a collection without the unique index
insert_one_no_index(store, id, doc) ==
    [rejected |-> FALSE,
     store |-> store \cup {[id |-> id, resume_hash |-> doc.resume_hash, file_id |-> doc.file_id]}]

\* db.resumes.insert_one(resume_dict) under create_index("resume_hash", unique=True):
\* DuplicateKeyError when a record with that resume_hash is stored
insert_one(store, id, doc) ==
    IF \E rec \in store : rec.resume_hash = doc.resume_hash
    THEN [rejected |-> TRUE, store |-> store]
    ELSE [rejected |-> FALSE,
          store |-> store \cup {[id |-> id, resume_hash |-> doc.resume_hash,
                                 file_id |-> doc.file_id]}]

\* db.resumes.update_one({"_id": id}, {"$set": {..., "resume_hash": h}}) under the
\* unique index: the store after it (unchanged when the index rejects the write
\* or when no record has that id)
update_one(store, id, h) ==
    IF \E rec \in store : rec.id # id /\ rec.resume_hash = h THEN store
    ELSE {IF rec.id = id THEN [rec EXCEPT !.resume_hash = h] ELSE rec : rec \in store}

\* db.resumes.delete_one({"_id": id})
delete_one(store, id) == {rec \in store : rec.id # id}

\* (mutant) the handler goes on to extraction whatever the lookup found
upload_after_lookup_always_extract(existing_resume) == "extract"

\* upload_resume: if existing_resume: ... return; else go on to extraction
upload_after_lookup(existing_resume) ==
    IF existing_resume # None THEN "duplicate" ELSE "extract"

NewRequest ==
    [pc |-> "start", text |-> None, found |-> None, llm_calls |-> 0,
     inserted |-> None, rejected |-> FALSE, outcome |-> "", resp_id |-> None]

UploadInit ==
    /\ u_store = {}
    /\ u_blobs = {}
    /\ u_next_id = 1
    /\ u_req = [r \in Uploads |-> NewRequest]
    /\ u_edits = 0
    /\ ParseIdle
    /\ ScoreIdle
    /\ DocumentIdle
    /\ ReadIdle
    /\ RestIdle

\* file_id = await storage_service.store_file(...)
StoreFile(r) ==
    /\ u_req[r].pc = "start"
    /\ u_blobs' = u_blobs \cup {r}
    /\ u_req' = [u_req EXCEPT ![r].pc = "stored"]
    /\ UNCHANGED <<u_store, u_next_id, u_edits, pvars, svars, dvars, rvars, xvars>>

\* text_content = await azure_parser.parse_document(...); an exception ends the
\* request with 500
ParseDocument(r) ==
    /\ u_req[r].pc = "stored"
    /\ \/ \E t \in UploadTexts :
             u_req' = [u_req EXCEPT ![r].pc = "parsed", ![r].text = Some(t)]
       \/ u_req' = [u_req EXCEPT ![r].pc = "done", ![r].outcome = "error"]
    /\ UNCHANGED <<u_store, u_blobs, u_next_id, u_edits, pvars, svars, dvars, rvars, xvars>>

\* text_hash = sha256(text_content); existing_resume = await db.resumes.find_one(...)
Lookup(r) ==
    /\ u_req[r].pc = "parsed"
    /\ LET existing_resume ==
               find_one_by_hash(u_store, upload_text_hash(The(u_req[r].text)))
       IN  u_req' = [u_req EXCEPT ![r].found = existing_resume,
                                  ![r].pc = upload_after_lookup(existing_resume)]
    /\ UNCHANGED <<u_store, u_blobs, u_next_id, u_edits, pvars, svars, dvars, rvars, xvars>>

\* the duplicate branch: delete the file just stored, return the existing record
ReturnExisting(r) ==
    /\ u_req[r].pc = "duplicate"
    /\ u_blobs' = u_blobs \ {r}
    /\ u_req' = [u_req EXCEPT ![r].pc = "done", ![r].outcome = "duplicate",
                              ![r].resp_id = u_req[r].found]
    /\ UNCHANGED <<u_store, u_next_id, u_edits, pvars, svars, dvars, rvars, xvars>>

\* resume = await gemini_service.parse_resume(text_content); resume.file_id = file_id;
\* result = await db.resumes.insert_one(resume_dict); any exception ends in 500
ExtractInsert(r) ==
    /\ u_req[r].pc = "extract"
    /\ \E p \in ParseOutcomes(The(u_req[r].text)) :
              IF p.raised
              THEN /\ u_req' = [u_req EXCEPT ![r].pc = "done", ![r].outcome = "error",
                                             ![r].llm_calls = p.llm_calls]
                   /\ UNCHANGED <<u_store, u_next_id>>
              ELSE LET ins == insert_one(u_store, u_next_id,
                                         [resume_hash |-> The(p.resume).resume_hash,
                                          file_id |-> r])
                   IN  IF ins.rejected
                       THEN /\ u_req' = [u_req EXCEPT ![r].pc = "done",
                                                      ![r].outcome = "error",
                                                      ![r].rejected = TRUE,
                                                      ![r].llm_calls = p.llm_calls]
                            /\ UNCHANGED <<u_store, u_next_id>>
                       ELSE /\ u_store' = ins.store
                            /\ u_next_id' = u_next_id + 1
                            /\ u_req' = [u_req EXCEPT ![r].pc = "done",
                                                      ![r].outcome = "created",
                                                      ![r].inserted = Some(u_next_id),
                                                      ![r].resp_id = Some(u_next_id),
                                                      ![r].llm_calls = p.llm_calls]
    /\ UNCHANGED <<u_blobs, u_edits, pvars, svars, dvars, rvars, xvars>>

\* PUT /api/resumes/{id}: $set of the body's fields, resume_hash among them
UpdateResume ==
    /\ u_edits < MaxEdits
    /\ \E rec \in u_store, h \in BodyHashes :
          u_store' = update_one(u_store, rec.id, h)
    /\ u_edits' = u_edits + 1
    /\ UNCHANGED <<u_blobs, u_next_id, u_req, pvars, svars, dvars, rvars, xvars>>

\* DELETE /api/resumes/{id}: the file, then the record
DeleteResume ==
    /\ u_edits < MaxEdits
    /\ \E rec \in u_store :
          /\ u_blobs' = u_blobs \ {rec.file_id}
          /\ u_store' = delete_one(u_store, rec.id)
    /\ u_edits' = u_edits + 1
    /\ UNCHANGED <<u_next_id, u_req, pvars, svars, dvars, rvars, xvars>>

\* DELETE /api/settings/delete-all-data: db.resumes.delete_many({}), files kept
DeleteAllData ==
    /\ u_edits < MaxEdits
    /\ u_store # {}
    /\ u_store' = {}
    /\ u_edits' = u_edits + 1
    /\ UNCHANGED <<u_blobs, u_next_id, u_req, pvars, svars, dvars, rvars, xvars>>

UploadNext ==
    \/ \E r \in Uploads :
          StoreFile(r) \/ ParseDocument(r) \/ Lookup(r) \/ ReturnExisting(r) \/ ExtractInsert(r)
    \/ UpdateResume
    \/ DeleteResume
    \/ DeleteAllData

SpecUpload == UploadInit /\ [][UploadNext]_vars

(***************************************************************************)
(* Claims on SpecUpload                                                    *)
(***************************************************************************)

\* C3: when two uploads of the same content both pass the hash lookup before
\* either inserts, the store rejects the second insert and the handler treats
\* the rejection as "duplicate found": the request returns the existing record.
C3_RejectedInsertIsDuplicate ==
    \A r \in Uploads :
        u_req[r].rejected =>
            /\ u_req[r].outcome = "duplicate"
            /\ u_req[r].resp_id # None
            /\ \E rec \in u_store :
                  /\ rec.id = The(u_req[r].resp_id)
                  /\ rec.resume_hash = upload_text_hash(The(u_req[r].text))

C6_HashUnique ==
    \A a, b \in u_store : a.resume_hash = b.resume_hash => a = b

\* C6 witness: the index has had to reject an insert while another record with
\* that hash is stored
C6_Witness ==
    \E r \in Uploads :
        /\ u_req[r].rejected
        /\ \E rec \in u_store : rec.resume_hash = upload_text_hash(The(u_req[r].text))

\* C25: an upload leaves no orphan blob: once the request is over, as a new
\* record, as a duplicate or with an error, the blob it put in the blob store
\* is referenced by the file_id of the record it created, or is deleted.
C25_NoOrphanBlob ==
    \A r \in Uploads :
        (u_req[r].pc = "done" /\ r \in u_blobs)
            => /\ u_req[r].outcome = "created"
               /\ u_edits = 0 => \E rec \in u_store : rec.file_id = r

\* C29: update_resume leaves resume_hash alone: whatever updates were made,
\* the record an upload created still carries the digest of the text it was
\* extracted from, so that text uploaded again is found as a duplicate.
C29_UpdateKeepsHash ==
    \A r \in Uploads :
        \A rec \in u_store :
            u_req[r].inserted = Some(rec.id)
                => /\ rec.resume_hash = upload_text_hash(The(u_req[r].text))
                   /\ find_one_by_hash(u_store, upload_text_hash(The(u_req[r].text)))
                          = Some(rec.id)

(***************************************************************************)
(* Strings and numbers of the scorer.  Resume and job fields are strings;  *)
(* Ch(s, i) is the i-th character.  Scores are Python floats, modelled as  *)
(* exact fractions <<numerator, denominator>> in lowest terms; round(x, 2) *)
(* gives a whole number of hundredths.                                     *)
(***************************************************************************)
Ch(s, i) == SubSeq(s, i, i)

UpperCase == "ABCDEFGHIJKLMNOPQRSTUVWXYZ"
LowerCase == "abcdefghijklmnopqrstuvwxyz"
Digits == "0123456789"

CharsOf(chars) == {Ch(chars, i) : i \in 1..Len(chars)}
IndexIn(c, chars) == CHOOSE i \in 1..Len(chars) : Ch(chars, i) = c
UpperSet == CharsOf(UpperCase)
DigitSet == CharsOf(Digits)
LowerOf == [c \in UpperSet |-> Ch(LowerCase, IndexIn(c, UpperCase))]
DigitOf == [c \in DigitSet |-> IndexIn(c, Digits) - 1]

\* str.lower(), by halves
RECURSIVE Lower(_)
Lower(s) ==
    IF s = "" THEN ""
    ELSE IF Len(s) = 1 THEN (IF s \in UpperSet THEN LowerOf[s] ELSE s)
    ELSE LET h == Len(s) \div 2
         IN  Lower(SubSeq(s, 1, h)) \o Lower(SubSeq(s, h + 1, Len(s)))

\* str.strip()
IsSpace(c) == c = " "
RECURSIVE Strip(_)
Strip(s) ==
    IF s = "" THEN ""
    ELSE IF IsSpace(Head(s)) THEN Strip(Tail(s))
    ELSE IF IsSpace(Ch(s, Len(s))) THEN Strip(SubSeq(s, 1, Len(s) - 1))
    ELSE s

\* keyword in text
Contains(text, keyword) ==
    \E i \in 1..(Len(text) - Len(keyword) + 1) : SubSeq(text, i, i + Len(keyword) - 1) = keyword

\* sep.join(parts)
RECURSIVE Join(_, _)
Join(parts, sep) ==
    IF parts = <<>> THEN ""
    ELSE IF Len(parts) = 1 THEN parts[1]
    ELSE parts[1] \o sep \o Join(Tail(parts), sep)

\* s.split('-')[0]
BeforeDash(s) ==
    LET dashes == {i \in 1..Len(s) : Ch(s, i) = "-"}
    IN  IF dashes = {} THEN s ELSE SubSeq(s, 1, Min(dashes) - 1)

\* int(s): the value of a run of digits with blanks around it; raises otherwise
IsInt(s) ==
    LET t == Strip(s) IN t # "" /\ \A i \in 1..Len(t) : Ch(t, i) \in DigitSet
RECURSIVE DigitsValue(_, _)
DigitsValue(t, acc) ==
    IF t = "" THEN acc
    ELSE DigitsValue(Tail(t), 10 * acc + DigitOf[Head(t)])
IntOf(s) == DigitsValue(Strip(s), 0)

\* re.findall(r'\b\w{4,}\b', text) as a set: the maximal runs of word
\* characters that are four or more long
WordCharSet == CharsOf(LowerCase) \cup UpperSet \cup DigitSet \cup {"_"}
IsWordChar(c) == c \in WordCharSet
WordRuns(text) ==
    LET n == Len(text)
        breaks == {0, n + 1} \cup {i \in 1..n : ~IsWordChar(Ch(text, i))}
        next(a) == Min({b \in breaks : b > a})
    IN  {SubSeq(text, a + 1, next(a) - 1) : a \in breaks \ {n + 1}}
Words4(text) == {w \in WordRuns(text) : Len(w) >= 4}

Range(f) == {f[i] : i \in DOMAIN f}

RECURSIVE GCD(_, _)
GCD(a, b) == IF b = 0 THEN a ELSE GCD(b, a % b)
Abs(x) == IF x < 0 THEN 0 - x ELSE x
\* the fraction n/d (d > 0) in lowest terms
Frac(n, d) == LET g == GCD(Abs(n), d) IN <<n \div g, d \div g>>
Whole(n) == <<n, 1>>
QAdd(a, b) == Frac(a[1] * b[2] + b[1] * a[2], a[2] * b[2])
QSub(a, b) == Frac(a[1] * b[2] - b[1] * a[2], a[2] * b[2])
QMul(a, b) == Frac(a[1] * b[1], a[2] * b[2])
QLe(a, b) == a[1] * b[2] <= b[1] * a[2]
QMin(a, b) == IF QLe(a, b) THEN a ELSE b
QMax(a, b) == IF QLe(a, b) THEN b ELSE a

\* round(x, 2), in hundredths (ties to even)
Round2(x) ==
    LET n == 100 * x[1]
        f == n \div x[2]
        r == n - f * x[2]
    IN  IF 2 * r < x[2] THEN f
        ELSE IF 2 * r > x[2] THEN f + 1
        ELSE IF f % 2 = 0 THEN f ELSE f + 1

(***************************************************************************)
(* The rule-based scorer of enhanced_scoring.py.  A resume is a record     *)
(* [name, summary, skills, experiences, education, certifications], a job  *)
(* description a record [title, description, required_skills,              *)
(* preferred_skills, experience_years].  A field the code reads only as    *)
(* `x or ""` holds "" for None; experience_years is None or Some(n).       *)
(***************************************************************************)

\* set(skill.lower().strip() for skill in skills if skill)
skill_set(skills) == {Strip(Lower(sk)) : sk \in {x \in Range(skills) : x # ""}}

\* job_description.experience_years or 0
required_years_of(job_description) ==
    IF job_description.experience_years = None THEN 0
    ELSE The(job_description.experience_years)

\* (mutant) a resume without skills gets the neutral score
calculate_skills_score_neutral_resume(resume, job_description) ==
    LET resume_skills == skill_set(resume.skills)
        required_skills == skill_set(job_description.required_skills)
        preferred_skills == skill_set(job_description.preferred_skills)
        required_ratio == IF required_skills # {}
                          THEN Frac(Cardinality(resume_skills \cap required_skills),
                                    Cardinality(required_skills))
                          ELSE Whole(1)
        preferred_ratio == IF preferred_skills # {}
                           THEN Frac(Cardinality(resume_skills \cap preferred_skills),
                                     Cardinality(preferred_skills))
                           ELSE Frac(1, 2)
        score == QMul(QAdd(QMul(required_ratio, Frac(7, 10)), QMul(preferred_ratio, Frac(3, 10))),
                      Whole(100))
    IN  IF required_skills \cup preferred_skills = {} \/ resume_skills = {} THEN Whole(50)
        ELSE QMin(score, Whole(100))

\* (mutant) no neutral score for a job description without skills
calculate_skills_score_no_neutral(resume, job_description) ==
    LET resume_skills == skill_set(resume.skills)
        required_skills == skill_set(job_description.required_skills)
        preferred_skills == skill_set(job_description.preferred_skills)
        required_ratio == IF required_skills # {}
                          THEN Frac(Cardinality(resume_skills \cap required_skills),
                                    Cardinality(required_skills))
                          ELSE Whole(1)
        preferred_ratio == IF preferred_skills # {}
                           THEN Frac(Cardinality(resume_skills \cap preferred_skills),
                                     Cardinality(preferred_skills))
                           ELSE Frac(1, 2)
        score == QMul(QAdd(QMul(required_ratio, Frac(7, 10)), QMul(preferred_ratio, Frac(3, 10))),
                      Whole(100))
    IN  IF resume_skills = {} THEN Whole(0)
        ELSE QMin(score, Whole(100))

\* (mutant) an empty preferred list counts as ratio 0 instead of 0.5
calculate_skills_score_no_preferred_default(resume, job_description) ==
    LET resume_skills == skill_set(resume.skills)
        required_skills == skill_set(job_description.required_skills)
        preferred_skills == skill_set(job_description.preferred_skills)
        required_ratio == IF required_skills # {}
                          THEN Frac(Cardinality(resume_skills \cap required_skills),
                                    Cardinality(required_skills))
                          ELSE Whole(1)
        preferred_ratio == IF preferred_skills # {}
                           THEN Frac(Cardinality(resume_skills \cap preferred_skills),
                                     Cardinality(preferred_skills))
                           ELSE Whole(0)
        score == QMul(QAdd(QMul(required_ratio, Frac(7, 10)), QMul(preferred_ratio, Frac(3, 10))),
                      Whole(100))
    IN  IF required_skills \cup preferred_skills = {} THEN Whole(50)
        ELSE IF resume_skills = {} THEN Whole(0)
        ELSE QMin(score, Whole(100))

calculate_skills_score(resume, job_description) ==
    LET resume_skills == skill_set(resume.skills)
        required_skills == skill_set(job_description.required_skills)
        preferred_skills == skill_set(job_description.preferred_skills)
        required_matches == resume_skills \cap required_skills
        preferred_matches == resume_skills \cap preferred_skills
        required_ratio == IF required_skills # {}
                          THEN Frac(Cardinality(required_matches), Cardinality(required_skills))
                          ELSE Whole(1)
        preferred_ratio == IF preferred_skills # {}
                           THEN Frac(Cardinality(preferred_matches), Cardinality(preferred_skills))
                           ELSE Frac(1, 2)
        score == QMul(QAdd(QMul(required_ratio, Frac(7, 10)), QMul(preferred_ratio, Frac(3, 10))),
                      Whole(100))
    IN  IF required_skills \cup preferred_skills = {} THEN Whole(50)
        ELSE IF resume_skills = {} THEN Whole(0)
        ELSE QMin(score, Whole(100))

\* one pass of the loop of _calculate_total_experience_years: the years an
\* entry adds; an entry whose date does not parse is skipped by the except
experience_entry_years(exp, current_year) ==
    IF exp.start_date = "" THEN 0
    ELSE IF ~IsInt(BeforeDash(exp.start_date)) THEN 0
    ELSE LET start_year == IntOf(BeforeDash(exp.start_date))
         IN  IF exp.end_date # "" /\ Lower(exp.end_date) \notin {"present", "current", ""}
             THEN IF ~IsInt(BeforeDash(exp.end_date)) THEN 0
                  ELSE Max({IntOf(BeforeDash(exp.end_date)) - start_year, 0})
             ELSE Max({current_year - start_year, 0})

RECURSIVE calculate_total_experience_years(_, _)
calculate_total_experience_years(experiences, current_year) ==
    IF experiences = <<>> THEN 0
    ELSE experience_entry_years(Head(experiences), current_year)
             + calculate_total_experience_years(Tail(experiences), current_year)

\* (mutant) without the floor of 10 for an under-qualified resume
calculate_experience_score_no_floor(resume, job_description, current_year) ==
    LET total_years == calculate_total_experience_years(resume.experiences, current_year)
        required_years == required_years_of(job_description)
    IN  IF resume.experiences = <<>> THEN Whole(0)
        ELSE IF total_years = 0 THEN Whole(0)
        ELSE IF required_years = 0 THEN Whole(70)
        ELSE IF total_years >= required_years
             THEN IF 2 * total_years <= 3 * required_years THEN Whole(100)
                  ELSE QMax(QSub(Whole(100), Frac(3 * (total_years - required_years), 2)), Whole(85))
             ELSE Frac(70 * total_years, required_years)

\* (mutant) without the guard on zero total years
calculate_experience_score_no_zero_guard(resume, job_description, current_year) ==
    LET total_years == calculate_total_experience_years(resume.experiences, current_year)
        required_years == required_years_of(job_description)
    IN  IF resume.experiences = <<>> THEN Whole(0)
        ELSE IF required_years = 0 THEN Whole(70)
        ELSE IF total_years >= required_years
             THEN IF 2 * total_years <= 3 * required_years THEN Whole(100)
                  ELSE QMax(QSub(Whole(100), Frac(3 * (total_years - required_years), 2)), Whole(85))
             ELSE QMax(Frac(70 * total_years, required_years), Whole(10))

calculate_experience_score(resume, job_description, current_year) ==
    LET total_years == calculate_total_experience_years(resume.experiences, current_year)
        required_years == required_years_of(job_description)
    IN  IF resume.experiences = <<>> THEN Whole(0)
        ELSE IF total_years = 0 THEN Whole(0)
        ELSE IF required_years = 0 THEN Whole(70)
        ELSE IF total_years >= required_years
             THEN IF 2 * total_years <= 3 * required_years THEN Whole(100)
                  ELSE QMax(QSub(Whole(100), Frac(3 * (total_years - required_years), 2)), Whole(85))
             ELSE QMax(Frac(70 * total_years, required_years), Whole(10))

education_text_of(education) ==
    Join([i \in 1..Len(education) |->
              Lower(education[i].degree \o " " \o education[i].institution \o " "
                        \o education[i].field_of_study)], " ")

calculate_education_score(resume) ==
    LET education_text == education_text_of(resume.education)
        any(keywords) == \E keyword \in keywords : Contains(education_text, keyword)
    IN  IF resume.education = <<>> THEN Whole(30)
        ELSE IF any({"phd", "doctorate", "doctoral"}) THEN Whole(100)
        ELSE IF any({"master", "mba", "msc", "ma", "ms"}) THEN Whole(90)
        ELSE IF any({"bachelor", "bsc", "ba", "bs", "btech", "be"}) THEN Whole(80)
        ELSE IF any({"associate", "diploma", "certificate"}) THEN Whole(70)
        ELSE Whole(50)

common_words ==
    {"with", "that", "this", "from", "have", "will", "your", "about",
     "other", "which", "their", "there", "would", "could", "should",
     "experience", "work", "working", "years", "knowledge"}

calculate_semantic_score(resume, job_description) ==
    LET resume_text ==
            Lower(Join(<<resume.name, resume.summary, Join(resume.skills, " "),
                         Join([i \in 1..Len(resume.experiences) |->
                                   resume.experiences[i].title \o " "
                                       \o resume.experiences[i].company \o " "
                                       \o resume.experiences[i].description], " ")>>, " "))
        job_text == Lower(job_description.title \o " " \o job_description.description)
        job_keywords == Words4(job_text) \ common_words
        resume_keywords == Words4(resume_text) \ common_words
    IN  IF job_keywords = {} THEN Whole(50)
        ELSE QMin(Frac(100 * Cardinality(resume_keywords \cap job_keywords),
                       Cardinality(job_keywords)), Whole(100))

get_matched_skills(resume, job_description) ==
    skill_set(resume.skills)
        \cap (skill_set(job_description.required_skills)
                  \cup skill_set(job_description.preferred_skills))

get_missing_skills(resume, job_description) ==
    skill_set(job_description.required_skills) \ skill_set(resume.skills)

\* 40% skills, 30% experience, 20% education, 10% semantic
\* (mutant) the semantic weight given to the skills: 0.5 / 0.3 / 0.2 / 0.0
weighted_total_no_semantic(skills_score, experience_score, education_score, semantic_score) ==
    QAdd(QAdd(QMul(skills_score, Frac(5, 10)), QMul(experience_score, Frac(3, 10))),
         QMul(education_score, Frac(2, 10)))

weighted_total(skills_score, experience_score, education_score, semantic_score) ==
    QAdd(QAdd(QMul(skills_score, Frac(4, 10)), QMul(experience_score, Frac(3, 10))),
         QAdd(QMul(education_score, Frac(2, 10)), QMul(semantic_score, Frac(1, 10))))

\* the result dictionary; scores are in hundredths, the skill lists are sets
MatchScore(skills_score, experience_score, education_score, semantic_score, matched, missing, years, ai) ==
    [total_score |-> Round2(weighted_total(skills_score, experience_score,
                                           education_score, semantic_score)),
     breakdown |-> [skills_score |-> Round2(skills_score),
                    experience_score |-> Round2(experience_score),
                    education_score |-> Round2(education_score),
                    semantic_score |-> Round2(semantic_score)],
     matched_skills |-> matched,
     missing_skills |-> missing,
     experience_years |-> years,
     ai_powered |-> ai]

calculate_fallback_score(resume, job_description, current_year) ==
    MatchScore(calculate_skills_score(resume, job_description),
               calculate_experience_score(resume, job_description, current_year),
               calculate_education_score(resume),
               calculate_semantic_score(resume, job_description),
               get_matched_skills(resume, job_description),
               get_missing_skills(resume, job_description),
               calculate_total_experience_years(resume.experiences, current_year),
               FALSE)

(***************************************************************************)
(* The AI path.  The text the LLM returns is modelled by what the code     *)
(* makes of it: a kind, and for a JSON object the four sub-score fields,   *)
(* each absent, a number, or a text float() rejects.                       *)
(***************************************************************************)
Absent == [tag |-> "absent", val |-> 0]
NotANumber == [tag |-> "text", val |-> 0]
Number(n) == [tag |-> "number", val |-> n]

ScoreFields == {"skills_score", "experience_score", "education_score", "semantic_score"}
ScoreFieldValues == {Absent, NotANumber, Number(0 - 5), Number(50), Number(150)}

EmptyObject == [f \in ScoreFields |-> Absent]
PlainObject == [f \in ScoreFields |-> Number(50)]
ScoreObjects ==
    {EmptyObject, PlainObject}
        \cup {[PlainObject EXCEPT ![f] = v] : f \in ScoreFields, v \in ScoreFieldValues}

\* "raise": generate_content raises; "garbage": text that is not JSON;
\* "prose_json": a JSON object with prose around it and no code fence;
\* "json_array": valid JSON that is not an object; "json": a bare JSON
\* object; "fenced_json": a JSON object in a ``` fence
ScoreResponses ==
    {[kind |-> k, obj |-> EmptyObject] : k \in {"raise", "garbage", "prose_json", "json_array"}}
        \cup {[kind |-> k, obj |-> o] : k \in {"json", "fenced_json"}, o \in ScoreObjects}

\* json.dumps(resume_data): a Certification object is not JSON serialisable
prompt_raises(resume) == resume.certifications # <<>>

\* fence stripping and json.loads(response_text), then the .get calls:
\* succeed only on a JSON object
ai_result_of(resp) ==
    IF resp.kind \in {"json", "fenced_json"} THEN Some(resp.obj) ELSE None

\* float(ai_result.get(field, 0))
float_raises(ai_result, field) == ai_result[field].tag = "text"
float_get(ai_result, field) ==
    IF ai_result[field].tag = "absent" THEN Whole(0) ELSE Whole(ai_result[field].val)

ai_outcome(raised, llm_calls, result) ==
    [raised |-> raised, llm_calls |-> llm_calls, result |-> result]

calculate_ai_score(resume, job_description, current_year, resp) ==
    IF prompt_raises(resume) THEN ai_outcome(TRUE, 0, None)
    ELSE IF ai_result_of(resp) = None THEN ai_outcome(TRUE, 1, None)
    ELSE LET ai_result == The(ai_result_of(resp))
         IN  IF \E f \in ScoreFields : float_raises(ai_result, f)
             THEN ai_outcome(TRUE, 1, None)
             ELSE ai_outcome(FALSE, 1,
                      Some(MatchScore(float_get(ai_result, "skills_score"),
                                      float_get(ai_result, "experience_score"),
                                      float_get(ai_result, "education_score"),
                                      float_get(ai_result, "semantic_score"),
                                      {}, {},   \* the modelled responses list no skills
                                      calculate_total_experience_years(resume.experiences,
                                                                       current_year),
                                      TRUE)))

heuristic_outcome(result) == ai_outcome(FALSE, 0, Some(result))

\* (mutant) without the except clause: the exception of the AI path gets out
calculate_match_score_no_except(ai, fallback) == ai

\* calculate_match_score, given what the AI path did and what the rule-based
\* scorer returns when asked
calculate_match_score(ai, fallback) ==
    IF ai.raised
    THEN ai_outcome(fallback.raised, ai.llm_calls, fallback.result)
    ELSE ai

\* every outcome of one call, by the response the LLM gives
MatchOutcomes(resume, job_description, current_year) ==
    LET fallback ==
            heuristic_outcome(calculate_fallback_score(resume, job_description, current_year))
    IN  {[resp |-> resp,
          out |-> calculate_match_score(
                      calculate_ai_score(resume, job_description, current_year, resp),
                      fallback)] : resp \in ScoreResponses}

(***************************************************************************)
(* Sample resumes and job descriptions                                     *)
(***************************************************************************)
MaxExperiences == 2

Experience(title, description, start_date, end_date) ==
    [title |-> title, company |-> "Acme", description |-> description,
     start_date |-> start_date, end_date |-> end_date]

ExperienceSamples ==
    {Experience("Data Engineer", "Built python pipelines", "2020-01", "2022-06"),
     Experience("Engineer", "", "2025", ""),
     Experience("Position 1", "", "Unknown", ""),
     Experience("Engineer", "", "2022", "2020-05"),
     Experience("Engineer", "", "", "2022"),
     Experience("Engineer", "", "2015-03", "Present")}

ExperienceLists(n) == UNION {[1..k -> ExperienceSamples] : k \in 0..n}

SkillSamples == {<<>>, <<"Python", " react ">>, <<"Java", "", "AWS">>}

Education(degree, institution, field_of_study) ==
    [degree |-> degree, institution |-> institution, field_of_study |-> field_of_study]

EducationSamples ==
    {<<>>,
     <<Education("Diploma", "City College", "")>>,
     <<Education("BSc", "Tech Univ", "Physics")>>}

CertificationSamples == {<<>>, <<[name |-> "AWS Certified"]>>}

Resume(skills, experiences, education, certifications) ==
    [name |-> "Ann Lee", summary |-> "Python data engineer", skills |-> skills,
     experiences |-> experiences, education |-> education,
     certifications |-> certifications]

JobDescription(required_skills, preferred_skills, experience_years) ==
    [title |-> "Python Engineer", description |-> "Build data pipelines with python",
     required_skills |-> required_skills, preferred_skills |-> preferred_skills,
     experience_years |-> experience_years]

JobSkillSamples == {<<<<>>, <<>>>>, <<<<"python", "react", "aws">>, <<"AWS">>>>}
RequiredYears == {None, Some(0), Some(2), Some(5), Some(8)}
NowYears == {2025, 2026}

JobDescriptions ==
    {JobDescription(sk[1], sk[2], y) : sk \in JobSkillSamples, y \in RequiredYears}

(***************************************************************************)
(* SpecScore: EnhancedResumeScorer.calculate_match_score(resume, jd)       *)
(***************************************************************************)
ScoreResumes ==
    {Resume(sk, ex, ed, ce) : sk \in SkillSamples, ex \in ExperienceLists(1),
                              ed \in EducationSamples, ce \in CertificationSamples}

ScoreInit ==
    /\ s_resume \in ScoreResumes
    /\ s_jd \in JobDescriptions
    /\ s_now \in NowYears
    /\ s_pc = "Start"
    /\ s_resp = None
    /\ s_llm_calls = 0
    /\ s_result = None
    /\ ParseIdle
    /\ UploadIdle
    /\ DocumentIdle
    /\ ReadIdle
    /\ RestIdle

CalculateMatchScore ==
    /\ s_pc = "Start"
    /\ \E o \in MatchOutcomes(s_resume, s_jd, s_now) :
           /\ s_resp' = IF o.out.llm_calls = 0 THEN None ELSE Some(o.resp)
           /\ s_llm_calls' = o.out.llm_calls
           /\ s_pc' = IF o.out.raised THEN "Raised" ELSE "Done"
           /\ s_result' = o.out.result
    /\ UNCHANGED <<s_resume, s_jd, s_now, pvars, uvars, dvars, rvars, xvars>>

ScoreNext == CalculateMatchScore

SpecScore == ScoreInit /\ [][ScoreNext]_vars

(***************************************************************************)
(* Claims on SpecScore                                                     *)
(***************************************************************************)
\* C7: calculate_match_score never lets an error of the AI path out: when
\* the LLM call throws or its response is not parseable JSON, the value
\* returned is exactly the rule-based score of the same resume and job
\* description, with ai_powered false.
C7_AIFailureFallsBack ==
    /\ s_pc # "Raised"
    /\ (s_pc = "Done" /\ s_resp # None
            /\ The(s_resp).kind \in {"raise", "garbage", "prose_json"})
           => /\ s_result = Some(calculate_fallback_score(s_resume, s_jd, s_now))
              /\ ~The(s_result).ai_powered

C7_Witness ==
    /\ s_pc = "Done"
    /\ s_resp # None
    /\ The(s_resp).kind = "garbage"
    /\ s_resume.experiences # <<>>
    /\ s_result = Some(calculate_fallback_score(s_resume, s_jd, s_now))
    /\ ~The(s_result).ai_powered

\* C8: when the LLM's response is a JSON object that lacks one of the four
\* sub-score fields, the value returned is the rule-based score, not an AI
\* score.
C8_MissingFieldFallsBack ==
    (s_pc = "Done" /\ s_resp # None
         /\ The(s_resp).kind \in {"json", "fenced_json"}
         /\ \E f \in ScoreFields : The(s_resp).obj[f] = Absent)
        => /\ ~The(s_result).ai_powered
           /\ s_result = Some(calculate_fallback_score(s_resume, s_jd, s_now))

\* C9: every value calculate_match_score returns, from the AI path or the
\* rule-based one and whatever the LLM returned, has total_score and the
\* four breakdown scores within 0..100 (0..10000 hundredths).
InRange(score) == 0 <= score /\ score <= 100 * 100
C9_ScoresInRange ==
    s_pc = "Done"
        => /\ InRange(The(s_result).total_score)
           /\ \A f \in ScoreFields : InRange(The(s_result).breakdown[f])

\* C20: every call of calculate_match_score makes exactly one LLM
\* generation call: one attempt, and on its failure the rule-based score.
C20_ExactlyOneLLMCall ==
    s_pc = "Done" => s_llm_calls = 1

\* C21: in every MatchScore returned, by the AI path or the rule-based one,
\* total_score is 0.4 x skills + 0.3 x experience + 0.2 x education +
\* 0.1 x semantic of its own breakdown, up to two-decimal rounding: the two
\* differ by no more than the 0.01 that rounding each of them can make.
BreakdownTotal(result) ==
    Frac(4 * result.breakdown.skills_score + 3 * result.breakdown.experience_score
             + 2 * result.breakdown.education_score + result.breakdown.semantic_score,
         10 * 100)
WithinOneCent(total_score, q) ==
    /\ QLe(QSub(Frac(total_score, 100), Frac(1, 100)), q)
    /\ QLe(q, QAdd(Frac(total_score, 100), Frac(1, 100)))
C21_TotalIsWeightedBreakdown ==
    s_pc = "Done"
        => WithinOneCent(The(s_result).total_score, BreakdownTotal(The(s_result)))

\* a rule-based result whose skills score needed rounding, and an AI result
C21_Witness ==
    /\ s_pc = "Done"
    /\ ~The(s_result).ai_powered
    /\ The(s_result).breakdown.skills_score % 100 # 0
    /\ The(s_result).breakdown.semantic_score > 0
    /\ The(s_result).total_score > 0

(***************************************************************************)
(* SpecHeuristic: the rule-based scorer's functions on their own           *)
(***************************************************************************)
HeuristicResumes ==
    {Resume(sk, ex, ed, <<>>) : sk \in SkillSamples, ex \in ExperienceLists(MaxExperiences),
                                ed \in EducationSamples}

HeuristicInit ==
    /\ s_resume \in HeuristicResumes
    /\ s_jd \in JobDescriptions
    /\ s_now \in NowYears
    /\ s_pc = "Start"
    /\ s_resp = None
    /\ s_llm_calls = 0
    /\ s_result = None
    /\ ParseIdle
    /\ UploadIdle
    /\ DocumentIdle
    /\ ReadIdle
    /\ RestIdle

HeuristicScores ==
    /\ s_pc = "Start"
    /\ s_result' = Some([skills_score |-> calculate_skills_score(s_resume, s_jd),
                         experience_score |-> calculate_experience_score(s_resume, s_jd, s_now),
                         education_score |-> calculate_education_score(s_resume),
                         semantic_score |-> calculate_semantic_score(s_resume, s_jd),
                         experience_years |->
                             calculate_total_experience_years(s_resume.experiences, s_now)])
    /\ s_pc' = "Done"
    /\ UNCHANGED <<s_resume, s_jd, s_now, s_resp, s_llm_calls, pvars, uvars, dvars, rvars, xvars>>

HeuristicNext == HeuristicScores

SpecHeuristic == HeuristicInit /\ [][HeuristicNext]_vars

(***************************************************************************)
(* Claims on SpecHeuristic                                                 *)
(***************************************************************************)
\* C10: the rule-based experience score is exactly 0 whenever the resume has
\* no experience entries or its computed total years are 0, whatever the job
\* description requires.
C10_NoExperienceScoresZero ==
    (s_pc = "Done"
         /\ (s_resume.experiences = <<>> \/ The(s_result).experience_years = 0))
        => The(s_result).experience_score = Whole(0)

C10_Witness ==
    /\ s_pc = "Done"
    /\ s_resume.experiences # <<>>
    /\ The(s_result).experience_years = 0
    /\ s_jd.experience_years = Some(5)
    /\ The(s_result).experience_score = Whole(0)

\* C13: with nonzero computed years Y and R required years the experience
\* score is 70 if R = 0; 100 if R <= Y <= 1.5 R; max(85, 100 - 1.5 (Y - R)),
\* which lies in [85, 100), if Y > 1.5 R; and max(10, 70 Y / R) if Y < R.
StatedExperienceScore(Y, R) ==
    IF R = 0 THEN Whole(70)
    ELSE IF R <= Y /\ 2 * Y <= 3 * R THEN Whole(100)
    ELSE IF 2 * Y > 3 * R THEN QMax(Whole(85), QSub(Whole(100), Frac(3 * (Y - R), 2)))
    ELSE QMax(Whole(10), Frac(70 * Y, R))

C13_ExperienceFormula ==
    (s_pc = "Done" /\ The(s_result).experience_years # 0)
        => LET Y == The(s_result).experience_years
               R == required_years_of(s_jd)
               score == The(s_result).experience_score
           IN  /\ score = StatedExperienceScore(Y, R)
               /\ (R # 0 /\ 2 * Y > 3 * R)
                      => QLe(Whole(85), score) /\ score # Whole(100) /\ QLe(score, Whole(100))

C13_Witness ==
    /\ s_pc = "Done"
    /\ The(s_result).experience_years = 1
    /\ s_jd.experience_years = Some(8)
    /\ The(s_result).experience_score = Whole(10)

\* C15: the education score is 30 without education entries and otherwise
\* that of the highest tier the entries name: 100 for PhD or doctorate, 90
\* for Master, MBA, MS or MA, 80 for Bachelor, BS, BA or BSc, 70 for
\* associate, diploma or certificate, 50 if none; a tier is named when one of
\* its keywords is a word of the entries' text.
StatedEducationScore(education) ==
    LET words == WordRuns(education_text_of(education))
        names(keywords) == words \cap keywords # {}
    IN  IF education = <<>> THEN Whole(30)
        ELSE IF names({"phd", "doctorate"}) THEN Whole(100)
        ELSE IF names({"master", "mba", "ms", "ma"}) THEN Whole(90)
        ELSE IF names({"bachelor", "bs", "ba", "bsc"}) THEN Whole(80)
        ELSE IF names({"associate", "diploma", "certificate"}) THEN Whole(70)
        ELSE Whole(50)

C15_EducationTiers ==
    s_pc = "Done"
        => The(s_result).education_score = StatedEducationScore(s_resume.education)

(***************************************************************************)
(* SpecSkills: _calculate_skills_score on its own, rescored after a skill  *)
(* the resume already lists is added to required_skills, and after the     *)
(* resume's skills are removed                                             *)
(***************************************************************************)
MaxSkills == 2
MaxJobSkills == 3

SeqsUpTo(S, n) == UNION {[1..k -> S] : k \in 0..n}

ResumeSkillWords == {"Python", "React", " aws ", ""}
JobSkillWords == {"Python", "React", "AWS"}
PreferredSamples == {<<>>, <<"AWS">>, <<"aws", "Docker">>, <<"">>}

SkillsResumes == {Resume(sk, <<>>, <<>>, <<>>) : sk \in SeqsUpTo(ResumeSkillWords, MaxSkills)}
SkillsJobs ==
    {JobDescription(r, p, None) : r \in SeqsUpTo(JobSkillWords, MaxJobSkills),
                                  p \in PreferredSamples}

skills_result(resume, job_description) ==
    Some([skills_score |-> calculate_skills_score(resume, job_description)])

SkillsInit ==
    /\ s_resume \in SkillsResumes
    /\ s_jd \in SkillsJobs
    /\ s_now = 0
    /\ s_pc = "Start"
    /\ s_resp = None
    /\ s_llm_calls = 0
    /\ s_result = None
    /\ ParseIdle
    /\ UploadIdle
    /\ DocumentIdle
    /\ ReadIdle
    /\ RestIdle

SkillsScore ==
    /\ s_pc = "Start"
    /\ s_result' = skills_result(s_resume, s_jd)
    /\ s_pc' = "Scored"
    /\ UNCHANGED <<s_resume, s_jd, s_now, s_resp, s_llm_calls, pvars, uvars, dvars, rvars, xvars>>

\* the job description gains a required skill that resume.skills holds
AddRequiredSkill ==
    /\ s_pc # "Start"
    /\ Len(s_jd.required_skills) <= MaxJobSkills
    /\ \E i \in 1..Len(s_resume.skills) :
           /\ s_jd' = [s_jd EXCEPT !.required_skills = Append(@, s_resume.skills[i])]
           /\ s_result' = skills_result(s_resume, s_jd')
    /\ s_pc' = "Added"
    /\ UNCHANGED <<s_resume, s_now, s_resp, s_llm_calls, pvars, uvars, dvars, rvars, xvars>>

\* the resume loses all its skills
ClearResumeSkills ==
    /\ s_pc # "Start"
    /\ s_resume.skills # <<>>
    /\ s_resume' = [s_resume EXCEPT !.skills = <<>>]
    /\ s_result' = skills_result(s_resume', s_jd)
    /\ s_pc' = "Cleared"
    /\ UNCHANGED <<s_jd, s_now, s_resp, s_llm_calls, pvars, uvars, dvars, rvars, xvars>>

SkillsNext == SkillsScore \/ AddRequiredSkill \/ ClearResumeSkills

SpecSkills == SkillsInit /\ [][SkillsNext]_vars

(***************************************************************************)
(* Claims on SpecSkills                                                    *)
(***************************************************************************)
ScenarioA ==
    /\ s_pc = "Scored"
    /\ s_resume.skills = <<"Python", "React">>
    /\ s_jd.required_skills = <<"Python", "React", "AWS">>
    /\ s_jd.preferred_skills = <<>>

\* C11 (as stated): in Scenario A (resume skills Python, React; required
\* Python, React, AWS; nothing preferred) the skills score is
\* 100 x (0.7 x 2/3) = 46.67.
C11_ScenarioA_Stated ==
    ScenarioA => Round2(The(s_result).skills_score) = 4667

\* C11 (amended): in Scenario A the skills score is
\* 100 x (0.7 x 2/3 + 0.3 x 0.5) = 61.67, the empty preferred list counting
\* as ratio 0.5.
C11_ScenarioA ==
    ScenarioA => /\ The(s_result).skills_score = Frac(185, 3)
                 /\ Round2(The(s_result).skills_score) = 6167

C11_Witness ==
    ScenarioA /\ Round2(The(s_result).skills_score) = 6167

\* C12: the skills score is 50 if the job description names no skill,
\* otherwise 0 if the resume names none, otherwise
\* min(100, 100 x (0.7 x |resume n required|/|required|
\*                 + 0.3 x |resume n preferred|/|preferred|)),
\* the first ratio being 1 and the second 0.5 when its denominator set is
\* empty; the sets hold the non-empty entries, case-folded and trimmed.
RatioOr(matches, of, default) ==
    IF of = {} THEN default ELSE Frac(Cardinality(matches \cap of), Cardinality(of))

StatedSkillsScore(resume_skills, required, preferred) ==
    IF required = {} /\ preferred = {} THEN Whole(50)
    ELSE IF resume_skills = {} THEN Whole(0)
    ELSE QMin(Whole(100),
              QMul(Whole(100),
                   QAdd(QMul(Frac(7, 10), RatioOr(resume_skills, required, Whole(1))),
                        QMul(Frac(3, 10), RatioOr(resume_skills, preferred, Frac(1, 2))))))

C12_SkillsFormula ==
    s_pc # "Start"
        => The(s_result).skills_score
               = StatedSkillsScore(skill_set(s_resume.skills),
                                   skill_set(s_jd.required_skills),
                                   skill_set(s_jd.preferred_skills))

C12_Witness ==
    /\ s_pc = "Scored"
    /\ s_resume.skills = <<"Python", " aws ">>
    /\ s_jd.required_skills = <<"Python", "React">>
    /\ s_jd.preferred_skills = <<"AWS">>
    /\ The(s_result).skills_score = Whole(65)

\* C14: adding to required_skills a skill that resume.skills holds never
\* lowers the skills score, and removing all of resume.skills never raises
\* it.
C14_SkillsMonotone ==
    [][/\ (s_pc' = "Added") => QLe(The(s_result).skills_score, The(s_result').skills_score)
       /\ (s_pc' = "Cleared") => QLe(The(s_result').skills_score, The(s_result).skills_score)]_vars

\* an added skill raised the score, then the emptied resume lost it
C14_Witness ==
    /\ s_pc = "Cleared"
    /\ s_resume.skills = <<>>
    /\ s_jd.required_skills = <<"AWS", " aws ">>
    /\ The(s_result).skills_score = Whole(0)

(***************************************************************************)
(* SpecRead: the paths that turn a stored record into a Resume or a        *)
(* ResumeResponse, and the normalizer of the LLM path.  Of the record only *)
(* the certifications member matters here; each of its elements is a plain *)
(* string or an object with a name.                                        *)
(***************************************************************************)
MaxCerts == 2

StringCert(name) == [shape |-> "str", name |-> name]
ObjectCert(name) == [shape |-> "dict", name |-> name]
CertItems == {StringCert("AWS Certified"), StringCert("CKA"), ObjectCert("PMP")}
StoredCertifications == SeqsUpTo(CertItems, MaxCerts)

\* the loop that turns each string into {name, every other field None}
transform_certifications(certifications) ==
    [i \in 1..Len(certifications) |->
         IF certifications[i].shape = "str"
         THEN ObjectCert(certifications[i].name)
         ELSE certifications[i]]

\* certifications: List[Certification] accepts objects only
certifications_validate(certifications) ==
    \A i \in 1..Len(certifications) : certifications[i].shape = "dict"

read_outcome(status, certifications) ==
    Some([status |-> status, certifications |-> certifications])

\* Resume(**doc) or ResumeResponse(**doc): a ValidationError leaves the handler
build_model(certifications) ==
    IF certifications_validate(certifications)
    THEN read_outcome("ok", certifications)
    ELSE read_outcome("error", <<>>)

normalize_llm_data(doc) == build_model(transform_certifications(doc))
list_resumes(doc) == build_model(transform_certifications(doc))
get_resume(doc) == build_model(transform_certifications(doc))
update_resume(doc) == build_model(transform_certifications(doc))
match_resume(doc) == build_model(doc)
\* the except clause of the loop skips the record
match_all_resumes_with_jd(doc) ==
    IF certifications_validate(doc)
    THEN read_outcome("ok", doc)
    ELSE read_outcome("dropped", <<>>)
\* Resume(**existing_resume) when a job description came, then ResumeResponse
upload_existing_resume(doc, job_description) ==
    IF job_description /\ ~certifications_validate(doc)
    THEN read_outcome("error", <<>>)
    ELSE build_model(doc)

ReadInit ==
    /\ r_doc \in StoredCertifications
    /\ r_job \in BOOLEAN
    /\ r_pc = "Start"
    /\ r_out = None
    /\ ParseIdle
    /\ UploadIdle
    /\ ScoreIdle
    /\ DocumentIdle
    /\ RestIdle

ReadPath(path, outcome) ==
    /\ r_pc = "Start"
    /\ r_pc' = path
    /\ r_out' = outcome
    /\ UNCHANGED <<r_doc, r_job, pvars, uvars, svars, dvars, xvars>>

NormalizeLLMData == ReadPath("llm", normalize_llm_data(r_doc))
ListResumes == ReadPath("list", list_resumes(r_doc))
GetResume == ReadPath("get", get_resume(r_doc))
UpdateResumeRead == ReadPath("update", update_resume(r_doc))
MatchResume == ReadPath("match", match_resume(r_doc))
MatchAllResumes == ReadPath("match-all", match_all_resumes_with_jd(r_doc))
UploadExistingResume == ReadPath("duplicate upload", upload_existing_resume(r_doc, r_job))

ReadNext ==
    \/ NormalizeLLMData
    \/ ListResumes
    \/ GetResume
    \/ UpdateResumeRead
    \/ MatchResume
    \/ MatchAllResumes
    \/ UploadExistingResume

SpecRead == ReadInit /\ [][ReadNext]_vars

(***************************************************************************)
(* Claims on SpecRead                                                      *)
(***************************************************************************)
\* C16: certifications held as plain strings are promoted to objects by the
\* LLM-path normalizer and on every path that reads a stored record (list,
\* get, update, match, match-all, duplicate upload): no path fails on the
\* record or drops it, and each returns the promoted certifications.
C16_StringCertificationsPromoted ==
    r_pc \notin {"Idle", "Start"}
        => r_out = read_outcome("ok", transform_certifications(r_doc))

(***************************************************************************)
(* SpecDocument: AzureDocumentParser.parse_document(file_content, filename)*)
(* The file is given by the end of its name and by what each parser makes  *)
(* of its content.                                                         *)
(***************************************************************************)
Extensions == {".pdf", ".PDF", ".docx", ".txt"}
AzureOutcomes == {"text", "empty", "raise"}
\* pdfplumber: more than 50 characters, 50 or fewer, no text, or an exception
PdfPlumberOutcomes == {"long", "short", "none", "raise"}
PyPDF2Outcomes == {"text", "blank", "raise"}
DocxOutcomes == {"text", "empty", "raise"}

Files ==
    [ext : Extensions, azure : AzureOutcomes, pdfplumber : PdfPlumberOutcomes,
     pypdf2 : PyPDF2Outcomes, docx : DocxOutcomes]

PdfMarker == "Unable to extract text from PDF. Please try a different file format."
DocxMarker == "Unable to extract text from DOCX"

returned(text) == [raised |-> FALSE, text |-> text]
raised_error == [raised |-> TRUE, text |-> ""]

parse_pdf(file) ==
    IF file.pdfplumber = "long" THEN returned("pdfplumber text")
    ELSE IF file.pypdf2 = "text" THEN returned("PyPDF2 text")
    ELSE returned(PdfMarker)

parse_docx(file) ==
    IF file.docx = "raise" THEN raised_error
    ELSE IF file.docx = "empty" THEN returned(DocxMarker)
    ELSE returned("docx text")

parse_document(available, file) ==
    IF available /\ file.azure = "text" THEN returned("azure text")
    ELSE IF Lower(file.ext) = ".pdf" THEN parse_pdf(file)
    ELSE IF Lower(file.ext) = ".docx" THEN parse_docx(file)
    ELSE raised_error

DocumentInit ==
    /\ d_file \in Files
    /\ d_available \in BOOLEAN
    /\ d_pc = "Start"
    /\ d_out = None
    /\ ParseIdle
    /\ UploadIdle
    /\ ScoreIdle
    /\ ReadIdle
    /\ RestIdle

ParseDocumentCall ==
    /\ d_pc = "Start"
    /\ LET r == parse_document(d_available, d_file)
       IN  /\ d_pc' = IF r.raised THEN "Raised" ELSE "Done"
           /\ d_out' = IF r.raised THEN None ELSE Some(r.text)
    /\ UNCHANGED <<d_file, d_available, pvars, uvars, svars, rvars, xvars>>

DocumentNext == ParseDocumentCall

SpecDocument == DocumentInit /\ [][DocumentNext]_vars

(***************************************************************************)
(* Claims on SpecDocument                                                  *)
(***************************************************************************)
\* no text comes out of the file: Azure is disabled, fails or returns
\* nothing, and so do the local parsers for the file's format
TextNotExtractable ==
    /\ ~d_available \/ d_file.azure \in {"empty", "raise"}
    /\ \/ /\ Lower(d_file.ext) = ".pdf"
          /\ d_file.pdfplumber \in {"none", "raise"}
          /\ d_file.pypdf2 \in {"blank", "raise"}
       \/ /\ Lower(d_file.ext) = ".docx"
          /\ d_file.docx \in {"empty", "raise"}

\* C17: parse_document never raises for a .pdf or .docx file whose text
\* cannot be extracted: it returns the 'Unable to extract text' marker.
C17_ParseDocumentNeverRaises ==
    (d_pc \notin {"Idle", "Start"} /\ TextNotExtractable)
        => /\ d_pc = "Done"
           /\ d_out \in {Some(PdfMarker), Some(DocxMarker)}

(***************************************************************************)
(* SpecRepeat: _calculate_fallback_score called again and again with the   *)
(* same resume and job description while the clock moves on                *)
(***************************************************************************)
MaxCalls == 2

RepeatInit ==
    /\ s_resume \in HeuristicResumes
    /\ s_jd \in JobDescriptions
    /\ s_now \in NowYears
    /\ s_pc = "Start"
    /\ s_resp = None
    /\ s_llm_calls = 0
    /\ s_result = None
    /\ t_results = <<>>
    /\ ParseIdle
    /\ UploadIdle
    /\ DocumentIdle
    /\ ReadIdle
    /\ MatchAllIdle
    /\ AuthIdle
    /\ ExtractIdle

\* one call: the scorer reads resume and job_description and datetime.now(),
\* assigns to none of them and touches no store
CallFallbackScore ==
    /\ Len(t_results) < MaxCalls
    /\ t_results' = Append(t_results, calculate_fallback_score(s_resume, s_jd, s_now))
    /\ UNCHANGED <<svars, pvars, uvars, dvars, rvars, mvars, avars, fvars>>

\* a new year begins between two calls
NewYear ==
    /\ s_now + 1 \in NowYears
    /\ s_now' = s_now + 1
    /\ UNCHANGED <<s_resume, s_jd, s_pc, s_resp, s_llm_calls, s_result, tvars,
                   pvars, uvars, dvars, rvars, mvars, avars, fvars>>

RepeatNext == CallFallbackScore \/ NewYear

SpecRepeat == RepeatInit /\ [][RepeatNext]_vars

\* C22: the rule-based scorer is deterministic and free of side effects: two
\* calls with the same resume and job description return the same MatchScore
\* whenever each of them happens, and no call changes the resume, the job
\* description or the stored records.
C22_RepeatedCallsAgree ==
    \A i, j \in DOMAIN t_results : t_results[i] = t_results[j]

(***************************************************************************)
(* SpecMatchAll: AnalyticsService.match_all_resumes_with_jd.  A record of  *)
(* all_resumes is [id, outcome]: what building the Resume and                 *)
(* calculate_match_score make of it, either None (an exception, caught by  *)
(* the loop) or the total_score returned, in hundredths.                   *)
(***************************************************************************)
MaxDocs == 3
MatchScores == {0, 5000, 7550}
DocOutcomes == {None} \cup {Some(x) : x \in MatchScores}

\* db.resumes.find({}).to_list(...): the records in whatever order the
\* store hands them out; the _id values are distinct
AllResumes ==
    UNION {{[k \in 1..n |-> [id |-> ids[k], outcome |-> outs[k]]] :
               ids \in {f \in [1..n -> 1..n] : \A a, b \in 1..n : a # b => f[a] # f[b]},
               outs \in [1..n -> DocOutcomes]} : n \in 0..MaxDocs}

\* an entry of matched_results
MatchedResult(doc) == [id |-> doc.id, match_score |-> The(doc.outcome)]

\* (mutant) matched_results.sort(key=...) without reverse=True
RECURSIVE sort_by_match_score_ascending(_)
sort_by_match_score_ascending(results) ==
    IF results = <<>> THEN <<>>
    ELSE LET rest == sort_by_match_score_ascending(SubSeq(results, 1, Len(results) - 1))
             x == results[Len(results)]
             k == Cardinality({a \in DOMAIN rest : rest[a].match_score <= x.match_score})
         IN  SubSeq(rest, 1, k) \o <<x>> \o SubSeq(rest, k + 1, Len(rest))

\* matched_results.sort(key=lambda x: x["match_score"], reverse=True): a
\* stable sort, entries of equal score stay in the order they were appended
RECURSIVE sort_by_match_score(_)
sort_by_match_score(results) ==
    IF results = <<>> THEN <<>>
    ELSE LET rest == sort_by_match_score(SubSeq(results, 1, Len(results) - 1))
             x == results[Len(results)]
             k == Cardinality({a \in DOMAIN rest : rest[a].match_score >= x.match_score})
         IN  SubSeq(rest, 1, k) \o <<x>> \o SubSeq(rest, k + 1, Len(rest))

RECURSIVE SumScores(_)
SumScores(results) ==
    IF results = <<>> THEN 0 ELSE results[1].match_score + SumScores(Tail(results))

\* the dictionary returned, from the sorted matched_results
match_all_result(sorted) ==
    [matched_candidates |-> sorted,
     best_match |-> IF sorted = <<>> THEN None ELSE Some(sorted[1]),
     worst_match |-> IF sorted = <<>> THEN None ELSE Some(sorted[Len(sorted)]),
     average_score |-> IF sorted = <<>> THEN 0
                       ELSE Round2(Frac(SumScores(sorted), 100 * Len(sorted))),
     total_analyzed |-> Len(sorted)]

MatchAllInit ==
    /\ m_all_resumes \in AllResumes
    /\ m_i = 0
    /\ m_results = <<>>
    /\ m_pc = "Start"
    /\ m_out = None
    /\ ParseIdle
    /\ UploadIdle
    /\ ScoreIdle
    /\ DocumentIdle
    /\ ReadIdle
    /\ RepeatIdle
    /\ AuthIdle
    /\ ExtractIdle

\* if not all_resumes: return the empty result
ReturnEmpty ==
    /\ m_pc = "Start"
    /\ m_all_resumes = <<>>
    /\ m_out' = Some(match_all_result(<<>>))
    /\ m_pc' = "Done"
    /\ UNCHANGED <<m_all_resumes, m_i, m_results, pvars, uvars, svars, dvars, rvars, tvars, avars, fvars>>

\* one turn of the for loop: the record is scored and appended, or its
\* exception is printed and the loop continues
ScoreResume ==
    /\ m_pc \in {"Start", "Loop"}
    /\ m_i < Len(m_all_resumes)
    /\ LET resume_doc == m_all_resumes[m_i + 1]
       IN  m_results' = IF resume_doc.outcome = None THEN m_results
                        ELSE Append(m_results, MatchedResult(resume_doc))
    /\ m_i' = m_i + 1
    /\ m_pc' = "Loop"
    /\ UNCHANGED <<m_all_resumes, m_out, pvars, uvars, svars, dvars, rvars, tvars, avars, fvars>>

\* after the loop: sort, statistics, the print of best and worst (which
\* subscripts best_match even when it is None), return
SortAndReturn ==
    /\ m_pc = "Loop"
    /\ m_i = Len(m_all_resumes)
    /\ LET sorted == sort_by_match_score(m_results)
       IN  /\ m_results' = sorted
           /\ IF sorted = <<>>
              THEN m_pc' = "Raised" /\ m_out' = None
              ELSE m_pc' = "Done" /\ m_out' = Some(match_all_result(sorted))
    /\ UNCHANGED <<m_all_resumes, m_i, pvars, uvars, svars, dvars, rvars, tvars, avars, fvars>>

MatchAllNext == ReturnEmpty \/ ScoreResume \/ SortAndReturn

SpecMatchAll == MatchAllInit /\ [][MatchAllNext]_vars

\* C23: matched_candidates is ordered by match_score descending, whatever
\* order the records were read and scored in; best_match is the first entry
\* and no entry scores higher, worst_match is the last and no entry scores
\* lower, and total_analyzed is the number of entries.
C23_RankedByScore ==
    m_pc = "Done"
        => LET out == The(m_out)
               c == out.matched_candidates
           IN  /\ \A a, b \in DOMAIN c : a < b => c[a].match_score >= c[b].match_score
               /\ {c[a] : a \in DOMAIN c}
                      = {MatchedResult(m_all_resumes[k]) :
                            k \in {j \in DOMAIN m_all_resumes :
                                      m_all_resumes[j].outcome # None}}
               /\ out.total_analyzed = Len(c)
               /\ c # <<>> => /\ out.best_match = Some(c[1])
                              /\ out.worst_match = Some(c[Len(c)])
                              /\ \A a \in DOMAIN c :
                                     /\ c[a].match_score <= c[1].match_score
                                     /\ c[a].match_score >= c[Len(c)].match_score
               /\ c = <<>> => out.best_match = None /\ out.worst_match = None

\* the record read first scores lowest, one record was skipped
C23_Witness ==
    /\ m_pc = "Done"
    /\ Len(m_all_resumes) = 3
    /\ m_all_resumes[1].outcome = Some(0)
    /\ m_all_resumes[2].outcome = None
    /\ m_all_resumes[3].outcome = Some(7550)
    /\ The(m_out).total_analyzed = 2
    /\ The(The(m_out).best_match).id = m_all_resumes[3].id

(***************************************************************************)
(* SpecAuth: requests to the protected endpoints.  Every handler of the    *)
(* upload, resumes, analytics and settings routers takes                   *)
(* Depends(get_current_user); the first three import it from               *)
(* app.dependencies, the settings router from app.auth.  A token is        *)
(* modelled by what decode_access_token makes of it: "garbage" (bad        *)
(* signature, expired, no sub) or the e-mail in its sub claim.             *)
(***************************************************************************)
Emails == {"hr@x.co"}

DependenciesEndpoints ==
    {"upload", "list_resumes", "get_resume", "update_resume", "delete_resume",
     "match_resume", "analytics", "match_all"}
AuthEndpoints == {"settings"}
ProtectedEndpoints == DependenciesEndpoints \cup AuthEndpoints

\* what the handler body does once it runs
handler_effects(endpoint) ==
    CASE endpoint = "upload" ->
             {"blob_stored", "document_text", "llm_call", "record_read", "record_written"}
      [] endpoint \in {"update_resume", "delete_resume"} -> {"record_read", "record_written"}
      [] OTHER -> {"record_read"}

\* the Authorization header: None, or the bearer token
Credentials(tokens) == {None, Some("garbage")} \cup {Some(e) : e \in tokens}

\* (mutant) HTTPBearer(auto_error=False): the dependency gets None and
\* credentials.credentials raises AttributeError
http_bearer_no_auto_error(credentials) == IF credentials = None THEN 500 ELSE 200

\* security = HTTPBearer(): without bearer credentials the request ends
\* with 403 before any dependency or handler runs
http_bearer(credentials) == IF credentials = None THEN 403 ELSE 200

\* decode_access_token(token): TokenData or None
decode_access_token(token) == IF token = "garbage" THEN None ELSE Some(token)

\* db.users.find_one({"email": email})
find_user(users, email) == IF users[email] = "absent" THEN None ELSE Some(users[email])

\* app.dependencies.get_current_user: the status it raises, 200 if it returns
dependencies_get_current_user(users, credentials) ==
    LET token_data == decode_access_token(The(credentials))
    IN  IF token_data = None THEN 401
        ELSE IF find_user(users, The(token_data)) = None THEN 401
        ELSE 200

\* app.auth.get_current_user: the same, and 403 for an inactive account
auth_get_current_user(users, credentials) ==
    LET token_data == decode_access_token(The(credentials))
    IN  IF token_data = None THEN 401
        ELSE IF find_user(users, The(token_data)) = None THEN 401
        ELSE IF The(find_user(users, The(token_data))) = "inactive" THEN 403
        ELSE 200

\* the get_current_user the endpoint's router imports
get_current_user(endpoint, users, credentials) ==
    IF endpoint \in AuthEndpoints
    THEN auth_get_current_user(users, credentials)
    ELSE dependencies_get_current_user(users, credentials)

AuthInit ==
    /\ a_users \in [Emails -> {"absent", "active", "inactive"}]
    /\ a_tokens = {}
    /\ a_req = None
    /\ a_pc = "Idle"
    /\ a_status = 0
    /\ a_effects = {}
    /\ ParseIdle
    /\ UploadIdle
    /\ ScoreIdle
    /\ DocumentIdle
    /\ ReadIdle
    /\ RepeatIdle
    /\ MatchAllIdle
    /\ ExtractIdle

\* POST /api/auth/register: a new account, active, and a token for it
Register ==
    /\ a_pc = "Idle"
    /\ \E email \in Emails :
           /\ a_users[email] = "absent"
           /\ a_users' = [a_users EXCEPT ![email] = "active"]
           /\ a_tokens' = a_tokens \cup {email}
    /\ UNCHANGED <<a_req, a_pc, a_status, a_effects, pvars, uvars, svars, dvars, rvars, tvars, mvars, fvars>>

\* POST /api/auth/login with the right password: a token, unless the
\* account is inactive
Login ==
    /\ a_pc = "Idle"
    /\ \E email \in Emails :
           /\ a_users[email] = "active"
           /\ a_tokens' = a_tokens \cup {email}
    /\ UNCHANGED <<a_users, a_req, a_pc, a_status, a_effects, pvars, uvars, svars, dvars, rvars, tvars, mvars, fvars>>

\* is_active of an account is set to false in db.users, between requests
Deactivate ==
    /\ a_pc = "Idle"
    /\ \E email \in Emails :
           /\ a_users[email] = "active"
           /\ a_users' = [a_users EXCEPT ![email] = "inactive"]
    /\ UNCHANGED <<a_tokens, a_req, a_pc, a_status, a_effects, pvars, uvars, svars, dvars, rvars, tvars, mvars, fvars>>

\* a request arrives
Receive ==
    /\ a_pc = "Idle"
    /\ \E endpoint \in ProtectedEndpoints, credentials \in Credentials(a_tokens) :
           a_req' = Some([endpoint |-> endpoint, credentials |-> credentials])
    /\ a_pc' = "Security"
    /\ a_status' = 0
    /\ a_effects' = {}
    /\ UNCHANGED <<a_users, a_tokens, pvars, uvars, svars, dvars, rvars, tvars, mvars, fvars>>

\* Depends(security)
Security ==
    /\ a_pc = "Security"
    /\ LET st == http_bearer(The(a_req).credentials)
       IN  IF st = 200
           THEN a_pc' = "CurrentUser" /\ UNCHANGED a_status
           ELSE a_pc' = "Done" /\ a_status' = st
    /\ UNCHANGED <<a_users, a_tokens, a_req, a_effects, pvars, uvars, svars, dvars, rvars, tvars, mvars, fvars>>

\* Depends(get_current_user)
CurrentUser ==
    /\ a_pc = "CurrentUser"
    /\ LET st == get_current_user(The(a_req).endpoint, a_users, The(a_req).credentials)
       IN  IF st = 200
           THEN a_pc' = "Handler" /\ UNCHANGED a_status
           ELSE a_pc' = "Done" /\ a_status' = st
    /\ UNCHANGED <<a_users, a_tokens, a_req, a_effects, pvars, uvars, svars, dvars, rvars, tvars, mvars, fvars>>

\* the handler body
Handler ==
    /\ a_pc = "Handler"
    /\ a_effects' = handler_effects(The(a_req).endpoint)
    /\ a_status' = 200
    /\ a_pc' = "Done"
    /\ UNCHANGED <<a_users, a_tokens, a_req, pvars, uvars, svars, dvars, rvars, tvars, mvars, fvars>>

\* the response is sent; the server waits for the next request
Respond ==
    /\ a_pc = "Done"
    /\ a_pc' = "Idle"
    /\ a_req' = None
    /\ a_status' = 0
    /\ a_effects' = {}
    /\ UNCHANGED <<a_users, a_tokens, pvars, uvars, svars, dvars, rvars, tvars, mvars, fvars>>

AuthNext ==
    \/ Register
    \/ Login
    \/ Deactivate
    \/ Receive
    \/ Security
    \/ CurrentUser
    \/ Handler
    \/ Respond

SpecAuth == AuthInit /\ [][AuthNext]_vars

\* C24: a request to a protected endpoint that carries no bearer credentials
\* is answered 403 before the handler body runs: no blob stored, no
\* document-text or LLM call, no record read or written.
C24_NoCredentialsRejected ==
    (a_req # None /\ The(a_req).credentials = None)
        => /\ a_pc \in {"Security", "Done"}
           /\ a_effects = {}
           /\ a_pc = "Done" => a_status = 403

C24_Witness ==
    /\ a_pc = "Done"
    /\ The(a_req).endpoint = "upload"
    /\ The(a_req).credentials = None
    /\ a_status = 403
    /\ a_effects = {}

\* C30: a user whose account is inactive gets no operation done on any
\* protected endpoint, also with a token issued while the account was active.
InactiveCaller ==
    /\ a_req # None
    /\ The(a_req).credentials \in {Some(e) : e \in Emails}
    /\ a_users[The(The(a_req).credentials)] = "inactive"
C30_InactiveUserRejected ==
    InactiveCaller
        => /\ a_effects = {}
           /\ a_pc # "Handler"
           /\ a_pc = "Done" => a_status \in {401, 403}

(***************************************************************************)
(* SpecExtract: what parse_resume puts into the contact's website and into *)
(* the experience entries of the record it returns, and what the           *)
(* rule-based scorer makes of those entries.  The two LLM attempts build   *)
(* the record the same way and are one step here.  bullet_impact_score is  *)
(* in tenths, None for null.                                               *)
(***************************************************************************)
MaxLines == 2
MaxLLMExperiences == 2

\* re.search of the three website_patterns over resume_text: per pattern
\* the match, if any
WebsiteMatches ==
    {<<g, p, h>> : g \in {None, Some("github.com/dev"), Some("github.com/LinkedIn-api")},
                   p \in {None, Some("portfolio.dev.io"), Some("portfolio.linkedin.com")},
                   h \in {None, Some("https://dev.io"), Some("https://www.linkedin.com")}}

\* for pattern in website_patterns: website = the match; break unless it
\* holds 'linkedin'.  website is what was assigned last.
RECURSIVE website_loop(_, _)
website_loop(matches, website) ==
    IF matches = <<>> THEN website
    ELSE IF Head(matches) = None THEN website_loop(Tail(matches), website)
    ELSE IF ~Contains(Lower(The(Head(matches))), "linkedin") THEN Head(matches)
    ELSE website_loop(Tail(matches), Head(matches))

extract_website(matches) == website_loop(matches, None)

\* the lines of the experience section, each as re.split(r'\s+[-|]\s+', line)
\* gives it; sep: the line holds '|' or ' - '
SectionLines ==
    {[sep |-> FALSE, parts |-> <<"Built data pipelines">>],
     [sep |-> TRUE, parts |-> <<"C|C++">>],
     [sep |-> TRUE, parts |-> <<"Engineer", "Acme">>],
     [sep |-> TRUE, parts |-> <<"Data Engineer", "Initech", "2019", "2023">>]}

\* (mutant) the line's third part taken as the start date
fallback_experience_dated(parts) ==
    [title |-> IF parts[1] # "" THEN parts[1] ELSE "Position",
     company |-> parts[2],
     description |-> "",
     start_date |-> IF Len(parts) > 2 THEN parts[3] ELSE "Unknown",
     end_date |-> "",
     bullet_impact_score |-> Some(3)]

\* current_exp = {...}
fallback_experience(parts) ==
    [title |-> IF parts[1] # "" THEN parts[1] ELSE "Position",
     company |-> parts[2],
     description |-> "",
     start_date |-> "Unknown",
     end_date |-> "",
     bullet_impact_score |-> Some(3)]

\* the loop over the lines: <<experiences, current_exp>> after it
RECURSIVE experience_loop(_, _, _)
experience_loop(lines, experiences, current_exp) ==
    IF lines = <<>> THEN <<experiences, current_exp>>
    ELSE LET line == Head(lines)
         IN  IF line.sep /\ Len(line.parts) >= 2
             THEN experience_loop(Tail(lines),
                                  IF current_exp # None
                                  THEN Append(experiences, The(current_exp))
                                  ELSE experiences,
                                  Some(fallback_experience(line.parts)))
             ELSE experience_loop(Tail(lines), experiences, current_exp)

\* ... and: if current_exp and current_exp not in experiences: append
extract_experiences(lines) ==
    LET after == experience_loop(lines, <<>>, None)
        experiences == after[1]
        current_exp == after[2]
    IN  IF current_exp # None /\ The(current_exp) \notin Range(experiences)
        THEN Append(experiences, The(current_exp))
        ELSE experiences

Facts ==
    {[website |-> w, lines |-> l] :
        w \in WebsiteMatches, l \in UNION {[1..k -> SectionLines] : k \in 0..MaxLines}}

\* the part of _enhanced_fallback_parse modelled here
fallback_record(facts) ==
    [source |-> "enhanced-fallback",
     website |-> extract_website(facts.website),
     experiences |-> extract_experiences(facts.lines)]

\* an experience object of the LLM's JSON: its bullet_impact_score member
Null == [tag |-> "null", val |-> 0]
BulletValues == {Absent, Null, NotANumber, Number(0), Number(8), Number(15), Number(0 - 2)}
LLMExperiences ==
    UNION {[1..k -> {[start_date |-> "2020-01", bullet |-> b] : b \in BulletValues}] :
              k \in 0..MaxLLMExperiences}

\* Experience(**exp): bullet_impact_score: Optional[float] = 0.0 takes any
\* number and null, and rejects text that is no number
experience_validates(exp) == exp.bullet.tag # "text"
llm_experience(exp) ==
    [title |-> "Engineer", company |-> "Acme", description |-> "",
     start_date |-> exp.start_date, end_date |-> "",
     bullet_impact_score |-> CASE exp.bullet.tag = "absent" -> Some(0)
                               [] exp.bullet.tag = "null" -> None
                               [] OTHER -> Some(exp.bullet.val)]

\* Resume(**data) in _call_gemini
llm_record(experiences) ==
    [source |-> "gemini-enhanced",
     website |-> None,
     experiences |-> [k \in DOMAIN experiences |-> llm_experience(experiences[k])]]

DefaultFacts == [website |-> <<None, None, None>>, lines |-> <<>>]

ExtractInit ==
    /\ \/ f_llm = None /\ f_facts \in Facts
       \/ f_llm \in {Some(x) : x \in LLMExperiences} /\ f_facts = DefaultFacts
    /\ f_pc = "LLM"
    /\ f_resume = None
    /\ f_jd = None
    /\ f_score = None
    /\ ParseIdle
    /\ UploadIdle
    /\ ScoreIdle
    /\ DocumentIdle
    /\ ReadIdle
    /\ RepeatIdle
    /\ MatchAllIdle
    /\ AuthIdle

\* _call_gemini: the record from the LLM's JSON, or an exception
LLMAttempt ==
    /\ f_pc = "LLM"
    /\ IF f_llm # None /\ \A k \in DOMAIN The(f_llm) : experience_validates(The(f_llm)[k])
       THEN f_resume' = Some(llm_record(The(f_llm))) /\ f_pc' = "Built"
       ELSE f_resume' = None /\ f_pc' = "Fallback"
    /\ UNCHANGED <<f_llm, f_facts, f_jd, f_score, pvars, uvars, svars, dvars, rvars, tvars, mvars, avars>>

\* _enhanced_fallback_parse
FallbackExtract ==
    /\ f_pc = "Fallback"
    /\ f_resume' = Some(fallback_record(f_facts))
    /\ f_pc' = "Built"
    /\ UNCHANGED <<f_llm, f_facts, f_jd, f_score, pvars, uvars, svars, dvars, rvars, tvars, mvars, avars>>

\* the record scored by the rule-based scorer against a job description
ScoreExperience ==
    /\ f_pc = "Built"
    /\ \E y \in RequiredYears, current_year \in NowYears :
           LET job_description == JobDescription(<<>>, <<>>, y)
           IN  /\ f_jd' = Some(job_description)
               /\ f_score' =
                      Some([experience_years |->
                                calculate_total_experience_years(The(f_resume).experiences,
                                                                 current_year),
                            experience_score |->
                                calculate_experience_score(The(f_resume), job_description,
                                                           current_year)])
    /\ f_pc' = "Scored"
    /\ UNCHANGED <<f_llm, f_facts, f_resume, pvars, uvars, svars, dvars, rvars, tvars, mvars, avars>>

ExtractNext == LLMAttempt \/ FallbackExtract \/ ScoreExperience

SpecExtract == ExtractInit /\ [][ExtractNext]_vars

\* C26: the website of a record made by fallback extraction is never a
\* LinkedIn match: it is absent or a match without 'linkedin', also when the
\* only or the last pattern that matches hits a LinkedIn URL.
C26_WebsiteNotLinkedIn ==
    (f_resume # None /\ The(f_resume).source = "enhanced-fallback")
        => \/ The(f_resume).website = None
           \/ ~Contains(Lower(The(The(f_resume).website)), "linkedin")

\* C27: every experience entry of every record parse_resume returns, from an
\* LLM response or from fallback extraction, has bullet_impact_score within
\* 0.0 .. 1.0 (0 .. 10 tenths).
C27_BulletImpactInRange ==
    f_resume # None
        => \A k \in DOMAIN The(f_resume).experiences :
               LET b == The(f_resume).experiences[k].bullet_impact_score
               IN  b # None /\ 0 <= The(b) /\ The(b) <= 10

\* C28: in a record made by fallback extraction every experience entry has
\* start_date 'Unknown', the scorer's total experience years are 0 and the
\* experience score is 0.0 against every job description.
C28_FallbackExperienceScoresZero ==
    (f_resume # None /\ The(f_resume).source = "enhanced-fallback")
        => /\ \A k \in DOMAIN The(f_resume).experiences :
                  The(f_resume).experiences[k].start_date = "Unknown"
           /\ f_pc = "Scored" => /\ The(f_score).experience_years = 0
                                 /\ The(f_score).experience_score = Whole(0)

C28_Witness ==
    /\ f_pc = "Scored"
    /\ The(f_resume).source = "enhanced-fallback"
    /\ Len(The(f_resume).experiences) = 2
    /\ The(f_jd).experience_years = Some(5)
    /\ The(f_score).experience_years = 0
    /\ The(f_score).experience_score = Whole(0)

====
